---- MODULE Spec2Model ----
(***************************************************************************)
(* Orchestration core of the storyboard generator (services/geminiService) *)
(* as a state machine: the retry wrapper withRetry and the tiered image   *)
(* client generateImage.  Strings are sequences of one-character strings, *)
(* so that substring search and concatenation are computed, not assumed.  *)
(***************************************************************************)
EXTENDS Integers, Sequences, FiniteSets, TLC

VARIABLES
  rPc,          \* withRetry: "idle" | "calling" | "waiting" | "returned" | "thrown"
  rN,           \* retries argument of the outermost withRetry call
  rBase,        \* delay argument of the outermost withRetry call
  retries,      \* retries parameter of the current withRetry frame
  delay,        \* delay parameter of the current withRetry frame
  attempts,     \* number of times fn() has been invoked by this withRetry call
  waits,        \* the setTimeout delays awaited so far, in order
  error,        \* the error caught in the current frame (NoError if none)
  isTransient,  \* the classification computed for the caught error
  rResult,      \* <<v>> once withRetry has returned v
  rThrown,      \* the error withRetry raised to its caller (NoError if none)
  gPc,          \* generateImage: "idle" | "tier1" | "tier2" | "returned" | "thrown"
  lastError,    \* generateImage's lastError
  gResult,      \* the data URI generateImage returned (<<>> if none)
  gThrown,      \* the error generateImage raised (NoError if none)
  t1Outcome,    \* what Tier 1's withRetry delivered to generateImage: [kind, parts, err]
  t2Outcome,    \* what Tier 2's withRetry delivered to generateImage: [kind, parts, err]
  calls,        \* log of upstream calls issued: [tier, ok] (tier 0: text and speech models)
  localKey,     \* localStorage item "gemini_api_key" (EmptyText if not stored)
  envKey,       \* process.env.API_KEY (EmptyText if not set)
  apiKey,       \* the key the last getAI() built its client with (EmptyText if none)
  op,           \* the service operation running: "none" | "extractWorldInfo" |
                \* "analyzeScript" | "generateSpeech"
  sPc,          \* that operation: "idle" | "calling" | "returned" | "thrown"
  sResult,      \* <<v>> once the operation has returned v
  sThrown,      \* the error the operation raised (NoError if none)
  characters,   \* App state: the character roster
  scenes,       \* App state: the scenes
  frames,       \* App state: the storyboard frames
  nextId,       \* the next id crypto.randomUUID() hands out
  inflight,     \* the generateImage and generateSpeech calls handlers await
  batch,        \* StoryboardTab.handleGenerateAll: its loop and its closure
  audioBatch,   \* AudioTab.handleGenerateAllAudio: its loop and its closure
  generatingId, \* AudioTab state generatingId (0: null)
  isBatchGenerating, \* AudioTab state isBatchGenerating
  ops,          \* number of operations the user has started
  charBatch,    \* CharacterTab.handleGenerateAll: its loop and its closure
  sceneBatch,   \* SceneTab.handleGenerateAll: its loop and its closure
  fullSet,      \* SceneTab.handleGenerateFullSet: its position and its closure
  scriptStatus, \* ScriptTab state status: "idle" | "extracting" |
                \* "storyboarding" | "done"
  extractedData, \* ScriptTab state extractedData: <<>> for null or <<data>>
  worldData,    \* handleAnalyze: <<>> or <<what extractWorldInfo resolved to>>
  activeTab,    \* App state activeTab: "script" | "other"
  pPc,          \* constructPanelPrompt: "idle" | "returned"
  pPanel,       \* its panel argument
  pRoster,      \* its characters argument
  pScene,       \* its scene argument (NoScene for undefined)
  pPrompt,      \* the string it returned (EmptyText before the call)
  wPc,          \* pcmBase64ToWavUrl: "idle" | "returned" | "thrown"
  wPcm,         \* the PCM bytes the provider encoded
  wBase64,      \* its base64Data argument
  wBlob         \* the bytes of the Blob it built (<<>> if none)

retryVars == <<rPc, rN, rBase, retries, delay, attempts, waits, error,
               isTransient, rResult, rThrown>>
imageVars == <<gPc, lastError, gResult, gThrown, t1Outcome, t2Outcome, calls>>
envVars == <<localKey, envKey>>
serviceVars == <<op, sPc, sResult, sThrown>>
\* what the actions of withRetry's direct caller leave alone
boardVars == <<characters, scenes, frames, nextId, inflight, batch, audioBatch,
               generatingId, isBatchGenerating, ops>>
tabVars == <<fullSet, scriptStatus, extractedData, worldData, activeTab>>
assetVars == <<charBatch, sceneBatch, tabVars>>
pureVars == <<pPc, pPanel, pRoster, pScene, pPrompt, wPc, wPcm, wBase64, wBlob>>
outsideRetry == <<imageVars, envVars, apiKey, serviceVars, boardVars,
                  assetVars, pureVars>>
\* what the actions of generateImage leave alone, apiKey apart
outsideImage == <<envVars, serviceVars, boardVars, assetVars, pureVars>>
vars == <<rPc, rN, rBase, retries, delay, attempts, waits, error,
          isTransient, rResult, rThrown,
          gPc, lastError, gResult, gThrown, t1Outcome, t2Outcome, calls,
          localKey, envKey, apiKey, op, sPc, sResult, sThrown,
          characters, scenes, frames, nextId, inflight, batch, audioBatch,
          generatingId, isBatchGenerating, ops, charBatch, sceneBatch,
          fullSet, scriptStatus, extractedData, worldData, activeTab,
          pPc, pPanel, pRoster, pScene, pPrompt, wPc, wPcm, wBase64, wBlob>>
\* what the handlers of the tabs leave alone
serviceSide == <<rPc, rN, rBase, retries, delay, attempts, waits, error,
                 isTransient, rResult, rThrown, imageVars, envVars, apiKey,
                 serviceVars>>

----------------------------------------------------------------------------
(* Bounds of the model *)

MaxRetries == 3
MaxParts == 2
MaxPanels == 2
MaxOps == 4
MaxRoster == 3
MaxNames == 2
MaxPcm == 4

(* Program constants *)

DefaultRetries == 3
DefaultDelay == 2000
ImageRetries == 2
RefusalChars == 100

----------------------------------------------------------------------------
(* Text *)

RpcFailed == <<"R","p","c"," ","f","a","i","l","e","d">>
XhrError == <<"x","h","r"," ","e","r","r","o","r">>
FetchFailed == <<"f","e","t","c","h"," ","f","a","i","l","e","d">>
NetworkErrorText == <<"N","e","t","w","o","r","k","E","r","r","o","r">>
LoadFailed == <<"L","o","a","d"," ","f","a","i","l","e","d">>
NetworkTimeout == <<"n","e","t","w","o","r","k"," ","t","i","m","e","o","u","t">>

BadRequest == <<"B","a","d"," ","R","e","q","u","e","s","t">>
RpcText == <<"R","p","c">>
FailedText == <<"f","a","i","l","e","d">>
QuotaText == <<"q","u","o","t","a">>
ObjectString == <<"[","o","b","j","e","c","t"," ","O","b","j","e","c","t","]">>
TypeErrorFetch == <<"T","y","p","e","E","r","r","o","r",":"," ","f","e","t","c","h"," ","f","a","i","l","e","d">>
XhrErrors == <<"a","n"," ","x","h","r"," ","e","r","r","o","r"," ","o","c","c","u","r","r","e","d">>
LowerLoadFailed == <<"l","o","a","d"," ","f","a","i","l","e","d">>
EmptyText == <<>>
ErrorColon == <<"E","r","r","o","r",":"," ">>
ApiKeyMissingText == <<"A","P","I"," ","K","e","y"," ","i","s"," ","m","i","s","s","i","n","g","."," ","P","l","e","a","s","e"," ","s","e","t"," ","i","t"," ","i","n"," ","S","e","t","t","i","n","g","s",".">>
StoredKey == <<"A","I","z","a","-","s","t","o","r","e","d">>
FailedEntitiesText == <<"F","a","i","l","e","d"," ","t","o"," ","a","n","a","l","y","z","e"," ","s","c","r","i","p","t"," ","e","n","t","i","t","i","e","s">>
FailedAnalyzeText == <<"F","a","i","l","e","d"," ","t","o"," ","a","n","a","l","y","z","e"," ","s","c","r","i","p","t">>
InvalidJsonText == <<"I","n","v","a","l","i","d"," ","J","S","O","N"," ","r","e","s","p","o","n","s","e"," ","f","r","o","m"," ","A","I">>
NoAudioText == <<"A","I"," ","d","i","d"," ","n","o","t"," ","r","e","t","u","r","n"," ","a","u","d","i","o"," ","d","a","t","a",".">>
CharactersKey == <<"c","h","a","r","a","c","t","e","r","s">>
ScenesKey == <<"s","c","e","n","e","s">>
NameKey == <<"n","a","m","e">>
PanelIdKey == <<"p","a","n","e","l","_","i","d">>
VisualActionKey == <<"v","i","s","u","a","l","_","a","c","t","i","o","n">>
CharactersInShotKey == <<"c","h","a","r","a","c","t","e","r","s","_","i","n","_","s","h","o","t">>
DialogueTextKey == <<"d","i","a","l","o","g","u","e","_","t","e","x","t">>
ShotTypeKey == <<"s","h","o","t","_","t","y","p","e">>
NoDescriptionText == <<"N","o"," ","d","e","s","c","r","i","p","t","i","o","n"," ","g","e","n","e","r","a","t","e","d",".">>
SayingText == <<" ","s","a","y","i","n","g",":"," ","\"">>
RecoveryTail == <<".",".",".","\"","."," ","C","i","n","e","m","a","t","i","c"," ","l","i","g","h","t","i","n","g",","," ","d","e","t","a","i","l","e","d"," ","e","x","p","r","e","s","s","i","o","n",".">>
EstablishingText == <<"C","i","n","e","m","a","t","i","c"," ","e","s","t","a","b","l","i","s","h","i","n","g"," ","s","h","o","t",","," ","d","e","t","a","i","l","e","d"," ","e","n","v","i","r","o","n","m","e","n","t",","," ","8","k"," ","r","e","s","o","l","u","t","i","o","n",".">>
CharacterWord == <<"C","h","a","r","a","c","t","e","r">>
Ampersand == <<"&">>
MediumShot == <<"M","e","d","i","u","m"," ","S","h","o","t">>
BlankText == <<" "," ">>
VisualA == <<"H","a","r","b","o","r"," ","a","t"," ","d","u","s","k">>
PaddedVisual == <<" ","H","a","r","b","o","r"," ">>
NearSentinel == <<"N","o"," ","d","e","s","c","r","i","p","t","i","o","n"," ","g","e","n","e","r","a","t","e","d">>
ShortDialogue == <<"H","e","l","l","o">>
LongDialogue == <<"H","o","w"," ","h","a","v","e"," ","y","o","u"," ","b","e","e","n"," ","l","a","t","e","l","y","?">>
NameA == <<"A","l","i","c","e">>
NameB == <<"B","o","b">>
WideShot == <<"W","i","d","e">>
SevenText == <<"7">>
PromptHead ==
  <<"(","A","n","i","m","e"," ","S","t","y","l","e"," ","M","a","s",
    "t","e","r","p","i","e","c","e",","," ","8","k"," ","R","e","s",
    "o","l","u","t","i","o","n",","," ","C","i","n","e","m","a","t",
    "i","c"," ","C","o","m","p","o","s","i","t","i","o","n",")",".",
    " ">>
ActionOpen ==
  <<"\n","[","A","C","T","I","O","N"," ","&"," ","S","H","O","T","]",
    " ","*","*">>
ActionMid == <<"*","*","."," ">>
SentenceEnd == <<"."," ">>
LocationOpen == <<"\n","[","L","O","C","A","T","I","O","N","]"," ">>
LocationName == <<" ","(","N","a","m","e",":"," ">>
LocationClose ==
  <<")","."," ","D","e","t","a","i","l","e","d"," ","b","a","c","k",
    "g","r","o","u","n","d","."," ">>
LocationGeneric ==
  <<"\n","[","L","O","C","A","T","I","O","N","]"," ","A","t","m","o",
    "s","p","h","e","r","i","c"," ","b","a","c","k","g","r","o","u",
    "n","d",","," ","m","a","t","c","h","i","n","g"," ","t","h","e",
    " ","m","o","o","d","."," ">>
CharactersOpen == <<"\n","[","C","H","A","R","A","C","T","E","R","S","]",":">>
CharacterOpen == <<"\n","-"," ","(">>
CharacterMid == <<")",":"," ">>
GenericCharacter ==
  <<"G","e","n","e","r","i","c"," ","a","n","i","m","e"," ","c","h",
    "a","r","a","c","t","e","r",".">>
UnknownName == <<"U","n","k","n","o","w","n">>
DnaAlice == <<"s","i","l","v","e","r"," ","h","a","i","r">>
DnaBob == <<"r","e","d"," ","c","o","a","t">>
DnaEdited == <<"b","l","u","e"," ","e","y","e","s">>
HarborName == <<"H","a","r","b","o","r">>
HarborDna == <<"r","u","s","t","y"," ","d","o","c","k","s">>
BobWaits == <<"B","o","b"," ","w","a","i","t","s">>
UrlA ==
  <<"d","a","t","a",":","i","m","a","g","e","/","p","n","g",";","b",
    "a","s","e","6","4",",","A">>
UrlB ==
  <<"d","a","t","a",":","i","m","a","g","e","/","j","p","e","g",";",
    "b","a","s","e","6","4",",","B">>
BlobA == <<"b","l","o","b",":","a">>
BlobB == <<"b","l","o","b",":","b">>
ProcessKey == <<"A","I","z","a","-","e","n","v">>
NameAl == <<"A","l">>
NameAliceSmith == <<"A","l","i","c","e","S","m","i","t","h">>
DnaAl == <<"g","r","e","e","n"," ","c","a","p">>
DnaSmith == <<"l","o","n","g"," ","s","c","a","r","f">>

\* String.prototype.substring(0, n)
Substring0(t, n) == SubSeq(t, 1, IF Len(t) < n THEN Len(t) ELSE n)

\* String.prototype.includes
Includes(s, sub) ==
  \E i \in 0..(Len(s) - Len(sub)) : SubSeq(s, i + 1, i + Len(sub)) = sub

----------------------------------------------------------------------------
(* Errors: the fields withRetry reads from a thrown value.  id is the     *)
(* identity of the thrown object (the number of the upstream call that    *)
(* threw it, 0 for an error built locally); str is what its toString()    *)
(* yields.                                                                *)

MkError(message, str, status, respStatus, errCode, errMessage) ==
  [id |-> 0, message |-> message, str |-> str, status |-> status,
   respStatus |-> respStatus, errCode |-> errCode, errMessage |-> errMessage]

NoError == MkError(EmptyText, EmptyText, 0, 0, 0, EmptyText)

\* new Error(message)
NewError(message) ==
  MkError(message, ErrorColon \o message, 0, 0, 0, EmptyText)

\* what a withRetry call delivered to generateImage
NoOutcome == [kind |-> "none", parts |-> <<>>, err |-> NoError]
RespOutcome(parts) == [kind |-> "resp", parts |-> parts, err |-> NoError]
ErrOutcome(e) == [kind |-> "err", parts |-> <<>>, err |-> e]

\* status values an upstream failure may carry in a field (0: field absent)
StatusCodes == {0, 404, 500, 502, 503, 504}

Messages == {EmptyText, BadRequest, RpcText, RpcFailed, XhrError, FetchFailed,
             NetworkErrorText, LoadFailed, NetworkTimeout, TypeErrorFetch,
             XhrErrors, LowerLoadFailed}

NestedMessages == {EmptyText, FailedText, QuotaText, LoadFailed, NetworkTimeout}

StrForms == {ObjectString, NetworkErrorText}

\* failures of the wrapped operation: every combination of the three status
\* fields, and every combination of the three texts
StatusErrors ==
  { MkError(BadRequest, ObjectString, s, r, c, EmptyText) :
      s \in StatusCodes, r \in StatusCodes, c \in StatusCodes }

MessageErrors ==
  { MkError(m, t, s, 0, 0, n) :
      m \in Messages, t \in StrForms, s \in {0, 404}, n \in NestedMessages }

RetryErrors == StatusErrors \cup MessageErrors

BaseDelays == {DefaultDelay, 250}

----------------------------------------------------------------------------
(* getAI, src/App.tsx 73-82 *)

\* const key = localKey || envKey;
GetKeyEnvFirst(local, env) == IF env # EmptyText THEN env ELSE local

GetKey(local, env) == IF local # EmptyText THEN local ELSE env

\* if (!key) throw new Error("API Key is missing. Please set it in Settings.")
KeyMissing(key) == key = EmptyText

\* values of the stored key and of the process-level key
StoredKeys == {EmptyText, StoredKey}
ProcessKeys == {EmptyText, ProcessKey}

----------------------------------------------------------------------------
(* withRetry, src/App.tsx 85-121 *)

\* let msg = error.message || error.toString() || '';
\* if (error.error && error.error.message) msg += ' ' + error.error.message;
ErrorMsgTopOnly(e) == IF e.message # EmptyText THEN e.message ELSE e.str

ErrorMsg(e) ==
  LET msg == IF e.message # EmptyText THEN e.message ELSE e.str
  IN  IF e.errMessage # EmptyText THEN msg \o <<" ">> \o e.errMessage ELSE msg

\* const status = error.status || error.response?.status || error.error?.code;
StatusTopLevelOnly(e) == e.status

StatusOf(e) ==
  IF e.status # 0 THEN e.status
  ELSE IF e.respStatus # 0 THEN e.respStatus
  ELSE e.errCode

\* const isTransient = status === 500 || ... || msg.includes('network timeout');
IsTransient(status, msg) ==
  \/ status = 500
  \/ status = 503
  \/ status = 502
  \/ status = 504
  \/ Includes(msg, RpcFailed)
  \/ Includes(msg, XhrError)
  \/ Includes(msg, FetchFailed)
  \/ Includes(msg, NetworkErrorText)
  \/ Includes(msg, LoadFailed)
  \/ Includes(msg, NetworkTimeout)

\* if (retries > 0 && isTransient)
ShouldRetryOffByOne(r, transient) == r >= 0 /\ transient
ShouldRetryAnyError(r, transient) == r > 0

ShouldRetry(r, transient) == r > 0 /\ transient

\* return withRetry(fn, retries - 1, delay * 2)
NextDelayLinear(d) == d + DefaultDelay

NextDelay(d) == d * 2

\* throw error;
RethrowWrapped(e) == MkError(ErrorMsg(e), e.str, 0, 0, 0, EmptyText)

Rethrow(e) == e

\* withRetry(fn, retries, delay) is entered: the first fn() is about to run
EnterWithRetry(n, d) ==
  /\ rPc' = "calling"
  /\ rN' = n
  /\ rBase' = d
  /\ retries' = n
  /\ delay' = d
  /\ attempts' = 0
  /\ waits' = <<>>
  /\ error' = NoError
  /\ isTransient' = FALSE
  /\ rResult' = <<>>
  /\ rThrown' = NoError

\* a wrapper that goes on to the backoff although fn() has resolved
FnReturnsKeepsTrying(v) ==
  /\ rPc = "calling"
  /\ attempts' = attempts + 1
  /\ rResult' = <<v>>
  /\ rPc' = IF retries > 0 THEN "waiting" ELSE "returned"
  /\ UNCHANGED <<rN, rBase, retries, delay, waits, error, isTransient, rThrown>>

\* try { return await fn(); } with fn() resolving to v
FnReturns(v) ==
  /\ rPc = "calling"
  /\ attempts' = attempts + 1
  /\ rResult' = <<v>>
  /\ rPc' = "returned"
  /\ UNCHANGED <<rN, rBase, retries, delay, waits, error, isTransient, rThrown>>

\* catch (error) { ... } with fn() rejecting with thrown value e
FnThrows(e) ==
  /\ rPc = "calling"
  /\ attempts' = attempts + 1
  /\ LET caught == e
         transient == IsTransient(StatusOf(caught), ErrorMsg(caught))
     IN  /\ error' = caught
         /\ isTransient' = transient
         /\ IF ShouldRetry(retries, transient)
              THEN /\ rPc' = "waiting"
                   /\ rThrown' = rThrown
              ELSE /\ rPc' = "thrown"
                   /\ rThrown' = Rethrow(caught)
  /\ UNCHANGED <<rN, rBase, retries, delay, waits, rResult>>

\* await new Promise(r => setTimeout(r, delay)); return withRetry(fn, retries - 1, delay * 2)
BackoffElapses ==
  /\ rPc = "waiting"
  /\ waits' = Append(waits, delay)
  /\ retries' = retries - 1
  /\ delay' = NextDelay(delay)
  /\ error' = NoError
  /\ isTransient' = FALSE
  /\ rPc' = "calling"
  /\ UNCHANGED <<rN, rBase, attempts, rResult, rThrown>>

----------------------------------------------------------------------------
(* A caller of withRetry with an arbitrary operation *)

WithRetryCall ==
  /\ rPc = "idle"
  /\ \E n \in 0..MaxRetries, d \in BaseDelays : EnterWithRetry(n, d)
  /\ UNCHANGED outsideRetry

\* the value an attempt resolves to is named by the number of the attempt
OperationSucceeds ==
  /\ FnReturns(attempts + 1)
  /\ UNCHANGED outsideRetry

OperationFails ==
  /\ \E e \in RetryErrors : FnThrows([e EXCEPT !.id = attempts + 1])
  /\ UNCHANGED outsideRetry

RetryBackoff ==
  /\ BackoffElapses
  /\ UNCHANGED outsideRetry

----------------------------------------------------------------------------
(* generateImage, src/App.tsx 205-263 *)

UnknownErrorText == <<"U","n","k","n","o","w","n"," ","e","r","r","o","r">>
EmptyDataText == <<"A","P","I"," ","r","e","t","u","r","n","e","d"," ","e","m","p","t","y"," ","d","a","t","a",".">>
RefusalPrefix == <<"A","I"," ","R","e","f","u","s","a","l",":"," ">>
Ellipsis == <<".",".",".">>
PngPrefix == <<"d","a","t","a",":","i","m","a","g","e","/","p","n","g",";","b","a","s","e","6","4",",">>
JpegPrefix == <<"d","a","t","a",":","i","m","a","g","e","/","j","p","e","g",";","b","a","s","e","6","4",",">>
FailedCheckKeyText == <<"I","m","a","g","e"," ","g","e","n","e","r","a","t","i","o","n"," ","f","a","i","l","e","d",".">>
SorryText == <<"S","o","r","r","y">>
\* a refusal longer than the RefusalChars characters generateImage keeps
LongText == [i \in 1..(RefusalChars + 3) |-> IF i <= RefusalChars THEN "n" ELSE "o"]
ImgA == <<"i","V","B","O">>
ImgB == <<"R","0","l","G">>
JpgA == <<"/","9","j","/">>
JpgB == <<"/","9","k","=">>

\* content parts of a Tier 1 response: inlineData is <<>> (absent) or <<data>>
Parts ==
  { [inlineData |-> i, text |-> t] :
      i \in {<<>>, <<ImgA>>, <<ImgB>>}, t \in {EmptyText, SorryText, LongText} }

SeqsUpTo(S, n) == UNION { [1..k -> S] : k \in 0..n }

\* response.candidates?.[0]?.content?.parts || []
Tier1Responses == SeqsUpTo(Parts, MaxParts)

\* response.generatedImages of a Tier 2 response (numberOfImages: 1): the
\* imageBytes of each generated image, EmptyText when absent
Tier2Responses == {<<>>, <<EmptyText>>, <<JpgA>>, <<JpgB>>}

\* failures of an upstream image call: not transient, transient by nested
\* code, transient by message
ImageErrors ==
  { MkError(BadRequest, ObjectString, 404, 0, 0, EmptyText),
    MkError(EmptyText, ObjectString, 0, 0, 503, QuotaText),
    MkError(FetchFailed, ErrorColon \o FetchFailed, 0, 0, 0, EmptyText) }

\* parts.find(p => p.inlineData): index of the part found, 0 when none
FindImagePartFirstOnly(parts) ==
  IF Len(parts) > 0 /\ parts[1].inlineData # <<>> THEN 1 ELSE 0

FindImagePart(parts) ==
  IF \E i \in 1..Len(parts) : parts[i].inlineData # <<>>
    THEN CHOOSE i \in 1..Len(parts) :
           /\ parts[i].inlineData # <<>>
           /\ \A j \in 1..(i - 1) : parts[j].inlineData = <<>>
    ELSE 0

\* parts.find(p => p.text): index of the part found, 0 when none
FindTextPart(parts) ==
  IF \E i \in 1..Len(parts) : parts[i].text # EmptyText
    THEN CHOOSE i \in 1..Len(parts) :
           /\ parts[i].text # EmptyText
           /\ \A j \in 1..(i - 1) : parts[j].text = EmptyText
    ELSE 0

\* return `data:image/png;base64,${imagePart.inlineData.data}`
Tier1Uri(parts) == PngPrefix \o parts[FindImagePart(parts)].inlineData[1]

\* lastError = new Error(`AI Refusal: ${textPart.text.substring(0, 100)}...`)
\* or new Error("API returned empty data.")
Tier1Diagnostic(parts) ==
  IF FindTextPart(parts) # 0
    THEN NewError(RefusalPrefix
                   \o Substring0(parts[FindTextPart(parts)].text, RefusalChars)
                   \o Ellipsis)
    ELSE NewError(EmptyDataText)

\* where generateImage goes once Tier 1's withRetry has returned a response
AfterTier1RetryOnText(parts) ==
  IF FindImagePart(parts) # 0 THEN "returned"
  ELSE IF FindTextPart(parts) # 0 THEN "tier1" ELSE "tier2"

AfterTier1Response(parts) ==
  IF FindImagePart(parts) # 0 THEN "returned" ELSE "tier2"

\* return `data:image/jpeg;base64,${base64}`
Tier2UriPng(base64) == PngPrefix \o base64

Tier2Uri(base64) == JpegPrefix \o base64

\* response.generatedImages?.[0]?.image?.imageBytes
Tier2Bytes(images) == IF Len(images) > 0 THEN images[1] ELSE EmptyText

\* catch (error) { console.warn("Imagen 3 fallback failed:", error); }
LastErrorTakesTier2(last, e) == e

LastErrorAfterTier2Catch(last, e) == last

\* throw lastError || new Error("Image generation failed. ...")
FinalError(last) == IF last = NoError THEN NewError(FailedCheckKeyText) ELSE last

\* generateImage(prompt, aspectRatio) is called: getAI(), then Tier 1's
\* withRetry is entered
GenerateImageCall ==
  /\ gPc = "idle"
  /\ sPc = "idle"
  /\ IF KeyMissing(GetKey(localKey, envKey))
       THEN /\ gPc' = "thrown"
            /\ gThrown' = NewError(ApiKeyMissingText)
            /\ UNCHANGED <<lastError, apiKey>>
            /\ UNCHANGED retryVars
       ELSE /\ apiKey' = GetKey(localKey, envKey)
            /\ gPc' = "tier1"
            /\ lastError' = NewError(UnknownErrorText)
            /\ EnterWithRetry(ImageRetries, DefaultDelay)
            /\ UNCHANGED gThrown
  /\ UNCHANGED <<gResult, t1Outcome, t2Outcome, calls>>
  /\ UNCHANGED outsideImage

\* ai.models.generateContent (gemini-2.5-flash-image) resolves
Tier1CallReturns ==
  /\ UNCHANGED <<outsideImage, apiKey>>
  /\ gPc = "tier1"
  /\ \E parts \in Tier1Responses : FnReturns(parts)
  /\ calls' = Append(calls, [tier |-> 1, ok |-> TRUE])
  /\ UNCHANGED <<gPc, lastError, gResult, gThrown, t1Outcome, t2Outcome>>

\* ai.models.generateContent (gemini-2.5-flash-image) rejects
Tier1CallFails ==
  /\ UNCHANGED <<outsideImage, apiKey>>
  /\ gPc = "tier1"
  /\ \E e \in ImageErrors : FnThrows([e EXCEPT !.id = Len(calls) + 1])
  /\ calls' = Append(calls, [tier |-> 1, ok |-> FALSE])
  /\ UNCHANGED <<gPc, lastError, gResult, gThrown, t1Outcome, t2Outcome>>

ImageBackoff ==
  /\ UNCHANGED <<outsideImage, apiKey>>
  /\ gPc \in {"tier1", "tier2"}
  /\ BackoffElapses
  /\ UNCHANGED imageVars

\* lines 223-236: Tier 1's withRetry returned a response
Tier1Responded ==
  /\ UNCHANGED <<outsideImage, apiKey>>
  /\ gPc = "tier1"
  /\ rPc = "returned"
  /\ LET parts == rResult[1]
         next == AfterTier1Response(parts)
     IN  /\ t1Outcome' = RespOutcome(parts)
         /\ gPc' = next
         /\ IF next = "returned"
              THEN /\ gResult' = <<Tier1Uri(parts)>>
                   /\ UNCHANGED lastError
                   /\ UNCHANGED retryVars
              ELSE /\ lastError' = Tier1Diagnostic(parts)
                   /\ UNCHANGED gResult
                   /\ EnterWithRetry(ImageRetries, DefaultDelay)
  /\ UNCHANGED <<gThrown, t2Outcome, calls>>

\* a client that gives up when Tier 1's withRetry raises
Tier1RaisedRethrows ==
  /\ UNCHANGED <<outsideImage, apiKey>>
  /\ gPc = "tier1"
  /\ rPc = "thrown"
  /\ t1Outcome' = ErrOutcome(rThrown)
  /\ lastError' = rThrown
  /\ gThrown' = rThrown
  /\ gPc' = "thrown"
  /\ UNCHANGED <<gResult, t2Outcome, calls>>
  /\ UNCHANGED retryVars

\* lines 237-240: Tier 1's withRetry raised an error
Tier1Raised ==
  /\ UNCHANGED <<outsideImage, apiKey>>
  /\ gPc = "tier1"
  /\ rPc = "thrown"
  /\ t1Outcome' = ErrOutcome(rThrown)
  /\ lastError' = rThrown
  /\ gPc' = "tier2"
  /\ EnterWithRetry(ImageRetries, DefaultDelay)
  /\ UNCHANGED <<gResult, gThrown, t2Outcome, calls>>

\* ai.models.generateImages (imagen-3.0-generate-001) resolves
Tier2CallReturns ==
  /\ UNCHANGED <<outsideImage, apiKey>>
  /\ gPc = "tier2"
  /\ \E images \in Tier2Responses : FnReturns(images)
  /\ calls' = Append(calls, [tier |-> 2, ok |-> TRUE])
  /\ UNCHANGED <<gPc, lastError, gResult, gThrown, t1Outcome, t2Outcome>>

\* ai.models.generateImages (imagen-3.0-generate-001) rejects
Tier2CallFails ==
  /\ UNCHANGED <<outsideImage, apiKey>>
  /\ gPc = "tier2"
  /\ \E e \in ImageErrors : FnThrows([e EXCEPT !.id = Len(calls) + 1])
  /\ calls' = Append(calls, [tier |-> 2, ok |-> FALSE])
  /\ UNCHANGED <<gPc, lastError, gResult, gThrown, t1Outcome, t2Outcome>>

\* lines 254-257, 262: Tier 2's withRetry returned a response
Tier2Responded ==
  /\ UNCHANGED <<outsideImage, apiKey>>
  /\ gPc = "tier2"
  /\ rPc = "returned"
  /\ LET base64 == Tier2Bytes(rResult[1])
     IN  /\ t2Outcome' = RespOutcome(rResult[1])
         /\ IF base64 # EmptyText
              THEN /\ gPc' = "returned"
                   /\ gResult' = <<Tier2Uri(base64)>>
                   /\ UNCHANGED gThrown
              ELSE /\ gPc' = "thrown"
                   /\ gThrown' = FinalError(lastError)
                   /\ UNCHANGED gResult
  /\ UNCHANGED <<lastError, t1Outcome, calls>>
  /\ UNCHANGED retryVars

\* lines 258-262: Tier 2's withRetry raised an error
Tier2Raised ==
  /\ UNCHANGED <<outsideImage, apiKey>>
  /\ gPc = "tier2"
  /\ rPc = "thrown"
  /\ t2Outcome' = ErrOutcome(rThrown)
  /\ lastError' = LastErrorAfterTier2Catch(lastError, rThrown)
  /\ gThrown' = FinalError(lastError')
  /\ gPc' = "thrown"
  /\ UNCHANGED <<gResult, t1Outcome, calls>>
  /\ UNCHANGED retryVars


----------------------------------------------------------------------------
(* JSON: a response body is the lexical tokens of its text, ws counting    *)
(* the white space before them; JSON.parse is a recursive-descent parser   *)
(* over the tokens.  A value is a record of one shape for every type.      *)

Tok(t) == [t |-> t, s |-> EmptyText, n |-> 0]
StrTok(s) == [t |-> "str", s |-> s, n |-> 0]
NumTok(n) == [t |-> "num", s |-> EmptyText, n |-> n]

JV(t, n, s, items, keys) ==
  [t |-> t, n |-> n, s |-> s, items |-> items, keys |-> keys]

JUndef == JV("undef", 0, EmptyText, <<>>, <<>>)
JNull == JV("null", 0, EmptyText, <<>>, <<>>)
JBool(b) == JV("bool", IF b THEN 1 ELSE 0, EmptyText, <<>>, <<>>)
JNum(n) == JV("num", n, EmptyText, <<>>, <<>>)
JStr(s) == JV("str", 0, s, <<>>, <<>>)
JArr(items) == JV("arr", 0, EmptyText, items, <<>>)
\* an object: keys[i] is the name of the member whose value is items[i]
JObj(keys, items) == JV("obj", 0, EmptyText, items, keys)

\* the object with the members of pairs (<<key, value>>) whose value is given
ObjOf(pairs) ==
  LET given == SelectSeq(pairs, LAMBDA p : p[2].t # "undef")
  IN  JObj([i \in 1..Len(given) |-> given[i][1]],
           [i \in 1..Len(given) |-> given[i][2]])

RECURSIVE Stringify(_)
RECURSIVE StringifyAll(_, _)

\* JSON.stringify, as tokens
Stringify(v) ==
  CASE v.t = "null" -> <<Tok("null")>>
    [] v.t = "bool" -> <<Tok(IF v.n = 1 THEN "true" ELSE "false")>>
    [] v.t = "num" -> <<NumTok(v.n)>>
    [] v.t = "str" -> <<StrTok(v.s)>>
    [] v.t = "arr" -> <<Tok("lbrack")>> \o StringifyAll(v, 1) \o <<Tok("rbrack")>>
    [] v.t = "obj" -> <<Tok("lbrace")>> \o StringifyAll(v, 1) \o <<Tok("rbrace")>>

StringifyAll(v, i) ==
  IF i > Len(v.items) THEN <<>>
  ELSE (IF i > 1 THEN <<Tok("comma")>> ELSE <<>>)
       \o (IF v.t = "obj" THEN <<StrTok(v.keys[i]), Tok("colon")>> ELSE <<>>)
       \o Stringify(v.items[i])
       \o StringifyAll(v, i + 1)

POk(v, rest) == [ok |-> TRUE, val |-> v, rest |-> rest]
PFail == [ok |-> FALSE, val |-> JUndef, rest |-> <<>>]

RECURSIVE ParseValue(_)
RECURSIVE ParseElements(_, _)
RECURSIVE ParseMembers(_, _, _)

ParseValue(toks) ==
  IF Len(toks) = 0 THEN PFail
  ELSE LET h == Head(toks)
           r == Tail(toks)
       IN  CASE h.t = "null" -> POk(JNull, r)
             [] h.t = "true" -> POk(JBool(TRUE), r)
             [] h.t = "false" -> POk(JBool(FALSE), r)
             [] h.t = "num" -> POk(JNum(h.n), r)
             [] h.t = "str" -> POk(JStr(h.s), r)
             [] h.t = "lbrack" ->
                  IF Len(r) > 0 /\ Head(r).t = "rbrack"
                    THEN POk(JArr(<<>>), Tail(r))
                    ELSE ParseElements(r, <<>>)
             [] h.t = "lbrace" ->
                  IF Len(r) > 0 /\ Head(r).t = "rbrace"
                    THEN POk(JObj(<<>>, <<>>), Tail(r))
                    ELSE ParseMembers(r, <<>>, <<>>)
             [] OTHER -> PFail

\* the elements of an array after "[" or ",", up to the closing "]"
ParseElements(toks, acc) ==
  LET e == ParseValue(toks)
  IN  IF ~e.ok \/ Len(e.rest) = 0 THEN PFail
      ELSE IF Head(e.rest).t = "comma"
             THEN ParseElements(Tail(e.rest), Append(acc, e.val))
           ELSE IF Head(e.rest).t = "rbrack"
             THEN POk(JArr(Append(acc, e.val)), Tail(e.rest))
           ELSE PFail

\* the members of an object after "{" or ",", up to the closing "}"
ParseMembers(toks, keys, vals) ==
  IF Len(toks) < 2 \/ toks[1].t # "str" \/ toks[2].t # "colon" THEN PFail
  ELSE LET e == ParseValue(SubSeq(toks, 3, Len(toks)))
       IN  IF ~e.ok \/ Len(e.rest) = 0 THEN PFail
           ELSE IF Head(e.rest).t = "comma"
                  THEN ParseMembers(Tail(e.rest), Append(keys, toks[1].s),
                                    Append(vals, e.val))
                ELSE IF Head(e.rest).t = "rbrace"
                  THEN POk(JObj(Append(keys, toks[1].s), Append(vals, e.val)),
                           Tail(e.rest))
                ELSE PFail

\* a parser that stops at the end of the first value
JSONParseFirstValue(toks) == ParseValue(toks)

\* JSON.parse(text): ok is FALSE where it throws a SyntaxError
JSONParse(toks) ==
  LET r == ParseValue(toks)
  IN  IF r.ok /\ Len(r.rest) = 0 THEN r ELSE PFail

\* v[key]: for an object the last member of that name, undefined otherwise
Get(v, key) ==
  IF v.t = "obj" /\ \E i \in 1..Len(v.keys) : v.keys[i] = key
    THEN v.items[CHOOSE i \in 1..Len(v.keys) :
                   /\ v.keys[i] = key
                   /\ \A j \in (i + 1)..Len(v.keys) : v.keys[j] # key]
    ELSE JUndef

\* reading a property of null or undefined throws a TypeError
PropertyReadThrows(v) == v.t \in {"null", "undef"}

\* ToBoolean
Truthy(v) ==
  CASE v.t \in {"undef", "null"} -> FALSE
    [] v.t \in {"bool", "num"} -> v.n # 0
    [] v.t = "str" -> v.s # EmptyText
    [] OTHER -> TRUE

\* a response of the text model: present is FALSE when response.text is
\* undefined
Body(ws, toks) == [present |-> TRUE, ws |-> ws, toks |-> toks]
NoBody == [present |-> FALSE, ws |-> 0, toks |-> <<>>]

\* !text
TextMissing(resp) == ~resp.present \/ (resp.ws = 0 /\ Len(resp.toks) = 0)

\* what the code after the awaited call does: return val[1], or throw err
Returned(v) == [ok |-> TRUE, val |-> <<v>>, err |-> NoError]
Threw(e) == [ok |-> FALSE, val |-> <<>>, err |-> e]

----------------------------------------------------------------------------
(* extractWorldInfo, src/App.tsx 126-200 *)

\* result.characters || []
OrEmptyArrayKeepNull(v) == IF v.t = "undef" THEN JArr(<<>>) ELSE v

OrEmptyArray(v) == IF Truthy(v) THEN v ELSE JArr(<<>>)

\* lines 187-199, with the response the awaited withRetry returned
ExtractAfterResponse(resp) ==
  IF TextMissing(resp) THEN Threw(NewError(FailedEntitiesText))
  ELSE LET r == JSONParse(resp.toks)
       IN  IF ~r.ok \/ PropertyReadThrows(r.val)
             THEN Threw(NewError(InvalidJsonText))
             ELSE Returned(JObj(<<CharactersKey, ScenesKey>>,
                                <<OrEmptyArray(Get(r.val, CharactersKey)),
                                  OrEmptyArray(Get(r.val, ScenesKey))>>))

----------------------------------------------------------------------------
(* analyzeScript, src/App.tsx 268-356 *)

DialogueChars == 15

Whitespace == {" ", "\t", "\n", "\r"}

RECURSIVE TrimStart(_)
RECURSIVE TrimEnd(_)

TrimStart(s) ==
  IF Len(s) > 0 /\ Head(s) \in Whitespace THEN TrimStart(Tail(s)) ELSE s

TrimEnd(s) ==
  IF Len(s) > 0 /\ s[Len(s)] \in Whitespace
    THEN TrimEnd(SubSeq(s, 1, Len(s) - 1))
    ELSE s

\* String.prototype.trim
Trim(s) == TrimEnd(TrimStart(s))

RECURSIVE Join(_, _)

\* Array.prototype.join of an array of strings
Join(names, sep) ==
  IF Len(names) = 0 THEN EmptyText
  ELSE IF Len(names) = 1 THEN names[1]
  ELSE names[1] \o sep \o Join(Tail(names), sep)

\* typeof v === 'string' ? v : fallback
StringOr(v, fallback) == IF v.t = "str" THEN v.s ELSE fallback

\* Array.isArray(p.characters_in_shot) ? p.characters_in_shot : [], for an
\* array of strings
CharsOf(v) ==
  IF v.t = "arr" THEN [i \in 1..Len(v.items) |-> v.items[i].s] ELSE <<>>

\* !desc || desc.trim().length === 0 || desc === "No description generated."
NeedsRecoveryEmptyOnly(desc) == desc = EmptyText

NeedsRecovery(desc) ==
  \/ desc = EmptyText
  \/ Len(Trim(desc)) = 0
  \/ desc = NoDescriptionText

\* lines 335-339
Recovered(chars, dialogue) ==
  IF dialogue # EmptyText
    THEN (IF Join(chars, Ampersand) # EmptyText
            THEN Join(chars, Ampersand)
            ELSE CharacterWord)
         \o SayingText \o Substring0(dialogue, DialogueChars) \o RecoveryTail
    ELSE EstablishingText

\* typeof p.panel_id === 'number' ? p.panel_id : 0
PanelNumberOrOne(v) == IF v.t = "num" THEN v.n ELSE 1

PanelNumberOf(v) == IF v.t = "num" THEN v.n ELSE 0

\* the callback of result.map, lines 328-349
ToPanel(p) ==
  LET desc == StringOr(Get(p, VisualActionKey), EmptyText)
      dialogue == StringOr(Get(p, DialogueTextKey), EmptyText)
      chars == CharsOf(Get(p, CharactersInShotKey))
  IN  [panelNumber |-> PanelNumberOf(Get(p, PanelIdKey)),
       description |-> IF NeedsRecovery(desc)
                         THEN Recovered(chars, dialogue)
                         ELSE desc,
       charactersPresent |-> chars,
       dialogue |-> dialogue,
       cameraAngle |-> StringOr(Get(p, ShotTypeKey), MediumShot)]

\* an analysis that takes a JSON text that is not an array for a parse failure
AnalyzeAfterResponseArrayOrFail(resp) ==
  IF TextMissing(resp) THEN Threw(NewError(FailedAnalyzeText))
  ELSE LET r == JSONParse(resp.toks)
       IN  IF ~r.ok \/ r.val.t # "arr" THEN Threw(NewError(InvalidJsonText))
           ELSE IF \E i \in 1..Len(r.val.items) :
                     PropertyReadThrows(r.val.items[i])
             THEN Threw(NewError(InvalidJsonText))
             ELSE Returned([i \in 1..Len(r.val.items) |->
                              ToPanel(r.val.items[i])])

\* lines 322-355, with the response the awaited withRetry returned
AnalyzeAfterResponse(resp) ==
  IF TextMissing(resp) THEN Threw(NewError(FailedAnalyzeText))
  ELSE LET r == JSONParse(resp.toks)
       IN  IF ~r.ok THEN Threw(NewError(InvalidJsonText))
           ELSE IF r.val.t # "arr" THEN Returned(<<>>)
           ELSE IF \E i \in 1..Len(r.val.items) :
                     PropertyReadThrows(r.val.items[i])
             THEN Threw(NewError(InvalidJsonText))
             ELSE Returned([i \in 1..Len(r.val.items) |->
                              ToPanel(r.val.items[i])])

----------------------------------------------------------------------------
(* generateSpeech and the audio utilities, src/App.tsx 445-528 *)

SpeechRetries == 2
SampleRate == 24000
NumChannels == 1
BitsPerSample == 16

Base64Alphabet ==
  <<
    "A","B","C","D","E","F","G","H","I","J","K","L","M","N","O","P",
    "Q","R","S","T","U","V","W","X","Y","Z","a","b","c","d","e","f",
    "g","h","i","j","k","l","m","n","o","p","q","r","s","t","u","v",
    "w","x","y","z","0","1","2","3","4","5","6","7","8","9","+","/"
  >>

Base64Value(c) == (CHOOSE i \in 1..64 : Base64Alphabet[i] = c) - 1

IsBase64Char(c) == \E i \in 1..64 : Base64Alphabet[i] = c

\* atob drops one or two "=" that end data whose length is a multiple of 4
StripPadding(s) ==
  IF Len(s) > 0 /\ Len(s) % 4 = 0 /\ s[Len(s)] = "="
    THEN IF s[Len(s) - 1] = "="
           THEN SubSeq(s, 1, Len(s) - 2)
           ELSE SubSeq(s, 1, Len(s) - 1)
    ELSE s

\* the 24 bits of the g-th group of four characters of d, characters the
\* last group lacks counting as zero
GroupBits(d, g) ==
  LET v(k) == IF 4 * g + k <= Len(d) THEN Base64Value(d[4 * g + k]) ELSE 0
  IN  v(1) * 262144 + v(2) * 4096 + v(3) * 64 + v(4)

\* a decoder that drops a last group of two or three characters
DecodeGroupsDropPartial(d) ==
  [i \in 1..(3 * (Len(d) \div 4)) |->
     (GroupBits(d, (i - 1) \div 3) \div (256 ^ (2 - ((i - 1) % 3)))) % 256]

\* four characters give three bytes; a last group of two or three
\* characters gives one or two bytes, its low bits discarded
DecodeGroups(d) ==
  [i \in 1..(3 * (Len(d) \div 4)
               + (IF Len(d) % 4 = 0 THEN 0 ELSE (Len(d) % 4) - 1)) |->
     (GroupBits(d, (i - 1) \div 3) \div (256 ^ (2 - ((i - 1) % 3)))) % 256]

\* atob(base64Pcm) and the copy of its char codes into a Uint8Array: ok is
\* FALSE where atob throws InvalidCharacterError
Atob(s) ==
  LET d == StripPadding(s)
  IN  IF Len(d) % 4 = 1 \/ \E i \in 1..Len(d) : ~IsBase64Char(d[i])
        THEN [ok |-> FALSE, bytes |-> <<>>]
        ELSE [ok |-> TRUE, bytes |-> DecodeGroups(d)]

\* charCodeAt of the characters the header is written with
CharCode(c) ==
  CASE c = "R" -> 82 [] c = "I" -> 73 [] c = "F" -> 70 [] c = "W" -> 87
    [] c = "A" -> 65 [] c = "V" -> 86 [] c = "E" -> 69 [] c = "f" -> 102
    [] c = "m" -> 109 [] c = "t" -> 116 [] c = " " -> 32 [] c = "d" -> 100
    [] c = "a" -> 97

\* writeString(view, offset, string)
WriteString(string) == [i \in 1..Len(string) |-> CharCode(string[i])]

\* view.setUint32(offset, n, true)
Uint32LE(n) ==
  <<n % 256, (n \div 256) % 256, (n \div 65536) % 256,
    (n \div 16777216) % 256>>

\* view.setUint16(offset, n, true)
Uint16LE(n) == <<n % 256, (n \div 256) % 256>>

\* a header whose fileSize counts the whole file
CreateWavHeaderWholeFile(pcmData, sampleRate, numChannels, bitsPerSample) ==
  LET dataSize == Len(pcmData)
      fileSize == 44 + dataSize
      byteRate == sampleRate * numChannels * (bitsPerSample \div 8)
      blockAlign == numChannels * (bitsPerSample \div 8)
  IN  WriteString(<<"R","I","F","F">>) \o Uint32LE(fileSize)
      \o WriteString(<<"W","A","V","E">>)
      \o WriteString(<<"f","m","t"," ">>) \o Uint32LE(16) \o Uint16LE(1)
      \o Uint16LE(numChannels) \o Uint32LE(sampleRate) \o Uint32LE(byteRate)
      \o Uint16LE(blockAlign) \o Uint16LE(bitsPerSample)
      \o WriteString(<<"d","a","t","a">>) \o Uint32LE(dataSize)
      \o pcmData

\* createWavHeader(pcmData, sampleRate, numChannels, bitsPerSample)
CreateWavHeader(pcmData, sampleRate, numChannels, bitsPerSample) ==
  LET dataSize == Len(pcmData)
      fileSize == 36 + dataSize
      byteRate == sampleRate * numChannels * (bitsPerSample \div 8)
      blockAlign == numChannels * (bitsPerSample \div 8)
  IN  WriteString(<<"R","I","F","F">>) \o Uint32LE(fileSize)
      \o WriteString(<<"W","A","V","E">>)
      \o WriteString(<<"f","m","t"," ">>) \o Uint32LE(16) \o Uint16LE(1)
      \o Uint16LE(numChannels) \o Uint32LE(sampleRate) \o Uint32LE(byteRate)
      \o Uint16LE(blockAlign) \o Uint16LE(bitsPerSample)
      \o WriteString(<<"d","a","t","a">>) \o Uint32LE(dataSize)
      \o pcmData

\* the object URL of new Blob([wavBytes], { type: 'audio/wav' })
WavUrl(bytes) == [type |-> "audio/wav", bytes |-> bytes]

\* pcmBase64ToWavUrl, lines 472-487: what it returns or throws
PcmBase64ToWavUrl(base64Pcm) ==
  IF ~Atob(base64Pcm).ok
    THEN [ok |-> FALSE, url |-> WavUrl(<<>>)]
    ELSE [ok |-> TRUE,
          url |-> WavUrl(CreateWavHeader(Atob(base64Pcm).bytes, SampleRate,
                                         NumChannels, BitsPerSample))]

\* the data of the first part that has inline data
FirstAudioDataAnyPart(parts) ==
  IF \E i \in 1..Len(parts) : parts[i].inlineData # <<>>
    THEN parts[CHOOSE i \in 1..Len(parts) :
                 /\ parts[i].inlineData # <<>>
                 /\ \A j \in 1..(i - 1) : parts[j].inlineData = <<>>]
           .inlineData[1]
    ELSE EmptyText

\* response.candidates?.[0]?.content?.parts?.[0]?.inlineData?.data, EmptyText
\* when undefined
FirstAudioData(parts) ==
  IF Len(parts) = 0 \/ parts[1].inlineData = <<>>
    THEN EmptyText
    ELSE parts[1].inlineData[1]

InvalidCharacterText == <<"T","h","e"," ","s","t","r","i","n","g"," ","t","o"," ","b","e"," ","d","e","c","o","d","e","d"," ","i","s"," ","n","o","t"," ","c","o","r","r","e","c","t","l","y"," ","e","n","c","o","d","e","d",".">>

\* lines 461-465 and pcmBase64ToWavUrl, with the response the awaited
\* withRetry returned
SpeechAfterResponse(parts) ==
  IF FirstAudioData(parts) = EmptyText THEN Threw(NewError(NoAudioText))
  ELSE IF ~PcmBase64ToWavUrl(FirstAudioData(parts)).ok
    THEN Threw(NewError(InvalidCharacterText))
    ELSE Returned(PcmBase64ToWavUrl(FirstAudioData(parts)).url)

----------------------------------------------------------------------------
(* Responses of the text and speech models *)

\* a text containing none of the tokens, <<>> when toks is empty
Prefixes(toks) == { SubSeq(toks, 1, k) : k \in 1..(Len(toks) - 1) }

\* texts JSON.parse rejects, made from the text of value v: cut short, with
\* a token too many, and with a comma before the closing bracket
MalformedFrom(v) ==
  Prefixes(Stringify(v))
    \cup { Stringify(v) \o <<Tok(t)>> : t \in {"rbrack", "rbrace", "comma"} }
    \cup { SubSeq(Stringify(v), 1, Len(Stringify(v)) - 1)
             \o <<Tok("comma"), Stringify(v)[Len(Stringify(v))]>> }

\* bodies without a text: response.text undefined, and the empty string
MissingBodies == {NoBody, Body(0, <<>>)}

EntityOf(name) == JObj(<<NameKey>>, <<JStr(name)>>)

\* the characters or scenes member of the extraction (JUndef: not given)
EntityLists ==
  {JUndef, JNull, JArr(<<>>), JArr(<<EntityOf(NameA)>>),
   JArr(<<EntityOf(NameA), EntityOf(NameB)>>)}

WorldInfoOf(c, s) == ObjOf(<<<<CharactersKey, c>>, <<ScenesKey, s>>>>)

ExtractValues ==
  { WorldInfoOf(c, s) : c \in EntityLists, s \in EntityLists }
    \cup {JNull, JNum(5), JArr(<<>>)}

ExtractMalformed ==
  MalformedFrom(WorldInfoOf(JArr(<<EntityOf(NameA)>>), JArr(<<>>)))

ExtractBodies ==
  MissingBodies
    \cup { Body(0, Stringify(v)) : v \in ExtractValues }
    \cup { Body(0, t) : t \in ExtractMalformed }
    \cup { Body(1, <<>>) }

PanelOf(id, va, cs, dt, st) ==
  ObjOf(<<<<PanelIdKey, id>>, <<VisualActionKey, va>>,
          <<CharactersInShotKey, cs>>, <<DialogueTextKey, dt>>,
          <<ShotTypeKey, st>>>>)

VisualActions ==
  {JUndef, JNull, JNum(5), JStr(EmptyText), JStr(BlankText),
   JStr(<<" ", "\t", "\n">>), JStr(NoDescriptionText), JStr(NearSentinel),
   JStr(VisualA), JStr(PaddedVisual)}

Dialogues ==
  {JUndef, JNum(3), JStr(EmptyText), JStr(ShortDialogue),
   JStr(Substring0(LongDialogue, DialogueChars)), JStr(LongDialogue)}

CharLists ==
  {JUndef, JStr(NameA), JArr(<<>>), JArr(<<JStr(NameA)>>),
   JArr(<<JStr(NameA), JStr(NameB)>>)}

PanelIds == {JUndef, JNull, JStr(SevenText), JBool(TRUE), JNum(0), JNum(7)}

ShotTypes == {JUndef, JNum(1), JStr(WideShot)}

\* panels that differ in what the description is made from
DescriptionPanels ==
  { PanelOf(JNum(7), va, cs, dt, JStr(WideShot)) :
      va \in VisualActions, cs \in CharLists, dt \in Dialogues }

\* panels that differ in their number and shot type
NumberPanels ==
  { PanelOf(id, JStr(VisualA), JArr(<<JStr(NameA)>>), JStr(ShortDialogue), st) :
      id \in PanelIds, st \in ShotTypes }

\* the members of the elements of the longer arrays, as PanelOf takes them
ElementArgs ==
  { <<JNum(2), JStr(VisualA), JUndef, JUndef, JUndef>>,
    <<JNum(1), JUndef, JArr(<<JStr(NameB)>>), JStr(LongDialogue), JUndef>>,
    <<JUndef, JStr(NoDescriptionText), JUndef, JUndef, JStr(WideShot)>>,
    <<JUndef, JUndef, JUndef, JUndef, JUndef>> }

PanelOfArgs(a) == PanelOf(a[1], a[2], a[3], a[4], a[5])

\* elements of the longer arrays
ArrayElements == { PanelOfArgs(a) : a \in ElementArgs } \cup {JNull}

AnalyzeValues ==
  { JArr(<<p>>) : p \in DescriptionPanels \cup NumberPanels }
    \cup { JArr(s) : s \in SeqsUpTo(ArrayElements, MaxPanels) }
    \cup {JNull, JBool(FALSE), JNum(0), JNum(5), JStr(VisualA), EntityOf(NameA)}

AnalyzeMalformed ==
  MalformedFrom(JArr(<<PanelOf(JNum(1), JStr(VisualA), JArr(<<JStr(NameA)>>),
                               JUndef, JUndef)>>))

AnalyzeBodies ==
  MissingBodies
    \cup { Body(0, Stringify(v)) : v \in AnalyzeValues }
    \cup { Body(0, t) : t \in AnalyzeMalformed }
    \cup { Body(1, <<>>) }

PcmA == <<"A","Q","I","D">>
PcmB == <<"/","+","8","=">>
PcmC == <<"A","A","=","=">>
NotBase64 == <<"A","Q","I","D","A">>

\* content parts of a speech response
SpeechParts ==
  { [inlineData |-> i, text |-> EmptyText] :
      i \in {<<>>, <<EmptyText>>, <<PcmA>>, <<PcmB>>, <<PcmC>>, <<NotBase64>>} }

SpeechResponses == SeqsUpTo(SpeechParts, MaxParts)

\* what ai.models.generateContent may resolve to in operation o
ResponsesOf(o) ==
  CASE o = "extractWorldInfo" -> ExtractBodies
    [] o = "analyzeScript" -> AnalyzeBodies
    [] o = "generateSpeech" -> SpeechResponses

----------------------------------------------------------------------------
(* The operations as steps: extractWorldInfo, analyzeScript, generateSpeech *)

\* const ai = getAI(); ... await withRetry(() => ai.models.generateContent(..), n)
ServiceCall(o, n) ==
  /\ UNCHANGED <<boardVars, assetVars, pureVars>>
  /\ sPc = "idle"
  /\ gPc = "idle"
  /\ op' = o
  /\ IF KeyMissing(GetKey(localKey, envKey))
       THEN /\ sPc' = "thrown"
            /\ sThrown' = NewError(ApiKeyMissingText)
            /\ UNCHANGED apiKey
            /\ UNCHANGED retryVars
       ELSE /\ apiKey' = GetKey(localKey, envKey)
            /\ sPc' = "calling"
            /\ EnterWithRetry(n, DefaultDelay)
            /\ UNCHANGED sThrown
  /\ UNCHANGED <<sResult, envVars, imageVars>>

ExtractWorldInfoCall == ServiceCall("extractWorldInfo", DefaultRetries)

AnalyzeScriptCall == ServiceCall("analyzeScript", DefaultRetries)

GenerateSpeechCall == ServiceCall("generateSpeech", SpeechRetries)

\* ai.models.generateContent resolves
ServiceCallReturns ==
  /\ UNCHANGED <<boardVars, assetVars, pureVars>>
  /\ sPc = "calling"
  /\ \E resp \in ResponsesOf(op) : FnReturns(resp)
  /\ calls' = Append(calls, [tier |-> 0, ok |-> TRUE])
  /\ UNCHANGED <<gPc, lastError, gResult, gThrown, t1Outcome, t2Outcome>>
  /\ UNCHANGED <<envVars, apiKey, serviceVars>>

\* ai.models.generateContent rejects
ServiceCallFails ==
  /\ UNCHANGED <<boardVars, assetVars, pureVars>>
  /\ sPc = "calling"
  /\ \E e \in ImageErrors : FnThrows([e EXCEPT !.id = Len(calls) + 1])
  /\ calls' = Append(calls, [tier |-> 0, ok |-> FALSE])
  /\ UNCHANGED <<gPc, lastError, gResult, gThrown, t1Outcome, t2Outcome>>
  /\ UNCHANGED <<envVars, apiKey, serviceVars>>

ServiceBackoff ==
  /\ UNCHANGED <<boardVars, assetVars, pureVars>>
  /\ sPc = "calling"
  /\ BackoffElapses
  /\ UNCHANGED <<imageVars, envVars, apiKey, serviceVars>>

\* the code after the awaited withRetry, by operation
AfterResponse(o, resp) ==
  CASE o = "extractWorldInfo" -> ExtractAfterResponse(resp)
    [] o = "analyzeScript" -> AnalyzeAfterResponse(resp)
    [] o = "generateSpeech" -> SpeechAfterResponse(resp)

\* a variant that treats a body it cannot use as a failed attempt
ServiceRespondedRetrying ==
  /\ UNCHANGED <<boardVars, assetVars, pureVars>>
  /\ sPc = "calling"
  /\ rPc = "returned"
  /\ LET out == AfterResponse(op, rResult[1])
     IN  IF out.ok
           THEN /\ sPc' = "returned"
                /\ sResult' = out.val
                /\ UNCHANGED <<sThrown, retryVars>>
           ELSE IF retries > 0
             THEN /\ rPc' = "waiting"
                  /\ UNCHANGED <<rN, rBase, retries, delay, attempts, waits,
                                 error, isTransient, rResult, rThrown>>
                  /\ UNCHANGED <<sPc, sResult, sThrown>>
             ELSE /\ sPc' = "thrown"
                  /\ sThrown' = out.err
                  /\ UNCHANGED <<sResult, retryVars>>
  /\ UNCHANGED <<op, imageVars, envVars, apiKey>>

\* withRetry returned a response: the operation returns or throws
ServiceResponded ==
  /\ UNCHANGED <<boardVars, assetVars, pureVars>>
  /\ sPc = "calling"
  /\ rPc = "returned"
  /\ LET out == AfterResponse(op, rResult[1])
     IN  IF out.ok
           THEN /\ sPc' = "returned"
                /\ sResult' = out.val
                /\ UNCHANGED sThrown
           ELSE /\ sPc' = "thrown"
                /\ sThrown' = out.err
                /\ UNCHANGED sResult
  /\ UNCHANGED <<op, retryVars, imageVars, envVars, apiKey>>

\* withRetry threw: the operation rejects with the same error
ServiceRaised ==
  /\ UNCHANGED <<boardVars, assetVars, pureVars>>
  /\ sPc = "calling"
  /\ rPc = "thrown"
  /\ sPc' = "thrown"
  /\ sThrown' = rThrown
  /\ UNCHANGED <<op, sResult, retryVars, imageVars, envVars, apiKey>>

----------------------------------------------------------------------------
(* constructPanelPrompt, src/App.tsx 405-440 *)

\* no scene: the value find gives when nothing matches, with id 0 for
\* undefined
NoScene ==
  [id |-> 0, name |-> EmptyText, visualPrompt |-> EmptyText,
   imageUrl |-> EmptyText, gridUrl |-> EmptyText]

\* characters.find(c => c.name === charName || charName.includes(c.name)
\*                      || c.name.includes(charName)): its index, 0 if none
FindCharacterExactOnly(roster, charName) ==
  IF \E i \in 1..Len(roster) : roster[i].name = charName
    THEN CHOOSE i \in 1..Len(roster) :
           /\ roster[i].name = charName
           /\ \A j \in 1..(i - 1) : roster[j].name # charName
    ELSE 0

FindCharacter(roster, charName) ==
  LET matches(c) == \/ c.name = charName
                    \/ Includes(charName, c.name)
                    \/ Includes(c.name, charName)
  IN  IF \E i \in 1..Len(roster) : matches(roster[i])
        THEN CHOOSE i \in 1..Len(roster) :
               /\ matches(roster[i])
               /\ \A j \in 1..(i - 1) : ~matches(roster[j])
        ELSE 0

\* lines 427-436 for one name
CharacterLine(roster, charName) ==
  CharacterOpen \o charName \o CharacterMid
    \o (IF FindCharacter(roster, charName) # 0
          THEN roster[FindCharacter(roster, charName)].visualPrompt
          ELSE GenericCharacter)

RECURSIVE CharacterLines(_, _)

CharacterLines(roster, names) ==
  IF Len(names) = 0 THEN EmptyText
  ELSE CharacterLine(roster, Head(names)) \o CharacterLines(roster, Tail(names))

\* a prompt whose location never names the scene
ConstructPanelPromptNoScene(panel, roster, scene) ==
  PromptHead
    \o ActionOpen \o panel.cameraAngle \o ActionMid \o panel.description
    \o SentenceEnd
    \o LocationGeneric
    \o (IF Len(panel.charactersPresent) > 0
          THEN CharactersOpen \o CharacterLines(roster, panel.charactersPresent)
          ELSE EmptyText)

ConstructPanelPrompt(panel, roster, scene) ==
  PromptHead
    \o ActionOpen \o panel.cameraAngle \o ActionMid \o panel.description
    \o SentenceEnd
    \o (IF scene.id # 0
          THEN LocationOpen \o scene.visualPrompt \o LocationName
               \o scene.name \o LocationClose
          ELSE LocationGeneric)
    \o (IF Len(panel.charactersPresent) > 0
          THEN CharactersOpen \o CharacterLines(roster, panel.charactersPresent)
          ELSE EmptyText)

----------------------------------------------------------------------------
(* The application state (App, src/App.tsx 11-20) and what the tabs do to  *)
(* it.  Ids are numbers, 0 standing for undefined and for the "" of the    *)
(* scene selector.                                                         *)

\* scenes.find(s => s.id === sceneId)
FindScene(scs, sceneId) ==
  IF \E i \in 1..Len(scs) : scs[i].id = sceneId
    THEN scs[CHOOSE i \in 1..Len(scs) :
               /\ scs[i].id = sceneId
               /\ \A j \in 1..(i - 1) : scs[j].id # sceneId]
    ELSE NoScene

\* { ...f, ...updates }
Patch(f, updates) ==
  [k \in DOMAIN f |-> IF k \in DOMAIN updates THEN updates[k] ELSE f[k]]

\* a replacement that puts the updated frame last
PatchFrameMoveToEnd(prev, frameId, updates) ==
  SelectSeq(prev, LAMBDA f : f.id # frameId)
    \o [i \in 1..Len(SelectSeq(prev, LAMBDA f : f.id = frameId)) |->
          Patch(SelectSeq(prev, LAMBDA f : f.id = frameId)[i], updates)]

\* prev.map(f => f.id === frameId ? { ...f, ...updates } : f)
PatchFrame(prev, frameId, updates) ==
  [i \in 1..Len(prev) |->
     IF prev[i].id = frameId THEN Patch(prev[i], updates) ELSE prev[i]]

\* updateFrameData, SceneTab.tsx 353-368, with the scenes and characters of
\* the render the handler belongs to
UpdateFrameData(prev, frameId, updates, scs, roster) ==
  [i \in 1..Len(prev) |->
     IF prev[i].id # frameId THEN prev[i]
     ELSE LET updatedFrame == Patch(prev[i], updates)
          IN  Patch(updatedFrame,
                    [currentPrompt |->
                       ConstructPanelPrompt(
                         updatedFrame, roster,
                         FindScene(scs, updatedFrame.assignedSceneId))])]

\* the updates generateFrame commits
GeneratingUpdates == [status |-> "generating"]
\* a commit that keeps the prompt the frame had
ImageDoneUpdatesKeepPrompt(imageUrl, promptToUse) ==
  [status |-> "done", generatedImageUrl |-> imageUrl]

ImageDoneUpdates(imageUrl, promptToUse) ==
  [status |-> "done", generatedImageUrl |-> imageUrl,
   currentPrompt |-> promptToUse]
\* a catch block that leaves the status alone
ImageErrorUpdatesNone == [status |-> "generating"]

ImageErrorUpdates == [status |-> "error"]

\* the update the audio handlers commit
AudioUpdatesWithStatus(wavUrl) == [audioUrl |-> wavUrl, status |-> "done"]

AudioUpdates(wavUrl) == [audioUrl |-> wavUrl]

\* an extraction as handleApply reads it: name and visualPrompt are
\* EmptyText where the provider gave none
Entity(name, visualPrompt) == [name |-> name, visualPrompt |-> visualPrompt]

Panel(number, description, names, dialogue, cameraAngle) ==
  [panelNumber |-> number, description |-> description,
   charactersPresent |-> names, dialogue |-> dialogue,
   cameraAngle |-> cameraAngle]

Extractions ==
  { [characters |-> <<Entity(NameA, DnaAlice), Entity(NameB, DnaBob)>>,
     scenes |-> <<Entity(HarborName, HarborDna)>>,
     panels |-> <<Panel(1, VisualA, <<NameA>>, ShortDialogue, WideShot),
                  Panel(2, BobWaits, <<NameB>>, EmptyText, MediumShot)>>],
    [characters |-> <<Entity(EmptyText, DnaBob)>>,
     scenes |-> <<>>,
     panels |-> <<Panel(7, EstablishingText, <<>>, BlankText, MediumShot),
                  Panel(0, BobWaits, <<NameA>>, LongDialogue, WideShot),
                  Panel(3, VisualA, <<NameB>>, ShortDialogue, WideShot)>>] }

\* c.name || 'Unknown'
OrUnknown(name) == IF name # EmptyText THEN name ELSE UnknownName

\* handleApply, part_002 61-68: ids from crypto.randomUUID()
NewChars(e, firstId) ==
  [i \in 1..Len(e.characters) |->
     [id |-> firstId + i - 1,
      name |-> OrUnknown(e.characters[i].name),
      visualPrompt |-> e.characters[i].visualPrompt,
      imageUrl |-> EmptyText]]

\* handleApply, part_002 70-77
NewScenes(e, firstId) ==
  [i \in 1..Len(e.scenes) |->
     [id |-> firstId + i - 1,
      name |-> OrUnknown(e.scenes[i].name),
      visualPrompt |-> e.scenes[i].visualPrompt,
      imageUrl |-> EmptyText,
      gridUrl |-> EmptyText]]

\* handleApply, part_002 82-87: newScenes.find(...)
MatchedScene(description, newScenes) ==
  LET matches(s) == /\ s.name # EmptyText
                    /\ description # EmptyText
                    /\ \/ Includes(description, s.name)
                       \/ Includes(s.name, description)
  IN  IF \E i \in 1..Len(newScenes) : matches(newScenes[i])
        THEN newScenes[CHOOSE i \in 1..Len(newScenes) :
                         /\ matches(newScenes[i])
                         /\ \A j \in 1..(i - 1) : ~matches(newScenes[j])]
        ELSE NoScene

\* handleApply, part_002 79-102
NewFrames(e, newChars, newScenes, firstId) ==
  [i \in 1..Len(e.panels) |->
     LET p == e.panels[i]
         matchedScene == MatchedScene(p.description, newScenes)
     IN  [panelNumber |-> p.panelNumber,
          description |-> p.description,
          charactersPresent |-> p.charactersPresent,
          dialogue |-> p.dialogue,
          cameraAngle |-> p.cameraAngle,
          id |-> firstId + i - 1,
          currentPrompt |-> ConstructPanelPrompt(p, newChars, matchedScene),
          status |-> "pending",
          assignedSceneId |-> matchedScene.id,
          generatedImageUrl |-> EmptyText,
          audioUrl |-> EmptyText,
          audioStatus |-> "undefined"]]

\* results generateImage and generateSpeech resolve to
ImageUrls == {UrlA}
AudioUrls == {BlobA}

\* a request in flight: the call of generateImage or generateSpeech a
\* handler awaits, with what its closure holds
Request(n, kind, frameId, prompt, inBatch) ==
  [rid |-> n, kind |-> kind, frameId |-> frameId, prompt |-> prompt,
   batch |-> inBatch]

\* the number of a new request: the least one no request in flight has
FreshRid == CHOOSE n \in 1..(Cardinality(inflight) + 1) :
              /\ \A r \in inflight : r.rid # n
              /\ \A m \in 1..(n - 1) : \E r \in inflight : r.rid = m

\* a batch loop: the arrays of the render handleGenerateAll belongs to, and
\* the position of the loop in them
IdleBatch ==
  [phase |-> "idle", i |-> 0, frames |-> <<>>, characters |-> <<>>,
   scenes |-> <<>>]

\* the loop of SceneTab.handleGenerateAll, with the panorama it holds
\* between its two calls
IdleSceneBatch ==
  [phase |-> "idle", i |-> 0, scenes |-> <<>>, panImg |-> EmptyText]

\* handleGenerateFullSet with the selectedId and the panorama it holds
IdleFullSet == [phase |-> "idle", id |-> 0, panImg |-> EmptyText]

\* extractedData is <<>> for null, <<data>> once an analysis has succeeded
NoData == <<>>

InitBoard ==
  /\ characters = <<>>
  /\ scenes = <<>>
  /\ frames = <<>>
  /\ nextId = 1
  /\ inflight = {}
  /\ batch = IdleBatch
  /\ audioBatch = IdleBatch
  /\ generatingId = 0
  /\ isBatchGenerating = FALSE
  /\ ops = 0
  /\ charBatch = IdleBatch
  /\ sceneBatch = IdleSceneBatch
  /\ fullSet = IdleFullSet
  /\ scriptStatus = "idle"
  /\ extractedData = NoData
  /\ worldData = <<>>
  /\ activeTab = "script"

\* handleApply, part_002 60-106, with extractedData holding e
ApplyExtraction(e) ==
  LET newChars == NewChars(e, nextId)
      newScenes == NewScenes(e, nextId + Len(e.characters))
      newFrames == NewFrames(e, newChars, newScenes,
                             nextId + Len(e.characters) + Len(e.scenes))
  IN  /\ characters' = characters \o newChars
      /\ scenes' = scenes \o newScenes
      /\ frames' = newFrames
      /\ nextId' = nextId + Len(e.characters) + Len(e.scenes)
                     + Len(e.panels)

\* ScriptTab.handleApply, part_002 57-110, of whatever an analysis has left
\* in extractedData
HandleApply ==
  /\ ops < MaxOps
  /\ \E e \in Extractions : ApplyExtraction(e)
  /\ ops' = ops + 1
  /\ UNCHANGED <<inflight, batch, audioBatch, generatingId,
                 isBatchGenerating>>
  /\ UNCHANGED <<serviceSide, assetVars, pureVars>>

\* StoryboardTab.handleAssignScene, SceneTab.tsx 370-372
HandleAssignScene ==
  /\ ops < MaxOps
  /\ \E i \in 1..Len(frames), sceneId \in {0} \cup {scenes[j].id : j \in 1..Len(scenes)} :
       frames' = UpdateFrameData(frames, frames[i].id,
                                 [assignedSceneId |-> sceneId],
                                 scenes, characters)
  /\ ops' = ops + 1
  /\ UNCHANGED <<characters, scenes, nextId, inflight, batch, audioBatch,
                 generatingId, isBatchGenerating>>
  /\ UNCHANGED <<serviceSide, assetVars, pureVars>>

\* currentList.includes(charName) ? currentList.filter(c => c !== charName)
\*                                : [...currentList, charName]
Toggled(currentList, charName) ==
  IF \E k \in 1..Len(currentList) : currentList[k] = charName
    THEN SelectSeq(currentList, LAMBDA c : c # charName)
    ELSE Append(currentList, charName)

\* StoryboardTab.toggleCharacterInFrame, SceneTab.tsx 378-388
ToggleCharacterInFrame ==
  /\ ops < MaxOps
  /\ \E i \in 1..Len(frames), j \in 1..Len(characters) :
       frames' = UpdateFrameData(
                   frames, frames[i].id,
                   [charactersPresent |->
                      Toggled(frames[i].charactersPresent, characters[j].name)],
                   scenes, characters)
  /\ ops' = ops + 1
  /\ UNCHANGED <<characters, scenes, nextId, inflight, batch, audioBatch,
                 generatingId, isBatchGenerating>>
  /\ UNCHANGED <<serviceSide, assetVars, pureVars>>

\* what the user typed into the edit form
EditForms == {[visualPrompt |-> DnaEdited]}

\* CharacterTab.handleSave, CharacterTab.tsx 63-66
HandleSave ==
  /\ ops < MaxOps
  /\ \E j \in 1..Len(characters), editForm \in EditForms :
       characters' = [k \in 1..Len(characters) |->
                        IF characters[k].id = characters[j].id
                          THEN Patch(characters[k], editForm)
                          ELSE characters[k]]
  /\ ops' = ops + 1
  /\ UNCHANGED <<scenes, frames, nextId, inflight, batch, audioBatch,
                 generatingId, isBatchGenerating>>
  /\ UNCHANGED <<serviceSide, assetVars, pureVars>>

\* CharacterTab.handleDelete, CharacterTab.tsx 57-61, confirmed
HandleDelete ==
  /\ ops < MaxOps
  /\ \E j \in 1..Len(characters) :
       characters' = SelectSeq(characters,
                               LAMBDA c : c.id # characters[j].id)
  /\ ops' = ops + 1
  /\ UNCHANGED <<scenes, frames, nextId, inflight, batch, audioBatch,
                 generatingId, isBatchGenerating>>
  /\ UNCHANGED <<serviceSide, assetVars, pureVars>>

\* generateFrame, SceneTab.tsx 312-320, up to the awaited generateImage:
\* frame, roster and scs are those of the render the handler belongs to
StartGenerateFrame(frame, roster, scs, inBatch) ==
  /\ frames' = PatchFrame(frames, frame.id, GeneratingUpdates)
  /\ inflight' = inflight \cup
       {Request(FreshRid, "image", frame.id,
                ConstructPanelPrompt(frame, roster,
                                     FindScene(scs, frame.assignedSceneId)),
                inBatch)}

\* the generate button of a frame is clicked (SceneTab.tsx 515-520)
GenerateFrame ==
  /\ ops < MaxOps
  /\ \E i \in 1..Len(frames) :
       StartGenerateFrame(frames[i], characters, scenes, FALSE)
  /\ ops' = ops + 1
  /\ UNCHANGED <<characters, scenes, nextId, batch, audioBatch,
                 generatingId, isBatchGenerating>>
  /\ UNCHANGED <<serviceSide, assetVars, pureVars>>

\* generateFrame, SceneTab.tsx 322-328: generateImage resolved
ImageRequestSucceeds ==
  /\ \E r \in inflight, imageUrl \in ImageUrls :
       /\ r.kind = "image"
       /\ frames' = PatchFrame(frames, r.frameId,
                               ImageDoneUpdates(imageUrl, r.prompt))
       /\ inflight' = inflight \ {r}
       /\ batch' = IF r.batch THEN [batch EXCEPT !.phase = "delay"] ELSE batch
  /\ UNCHANGED <<characters, scenes, nextId, audioBatch, generatingId,
                 isBatchGenerating, ops>>
  /\ UNCHANGED <<serviceSide, assetVars, pureVars>>

\* generateFrame, SceneTab.tsx 330-334: generateImage rejected
ImageRequestFails ==
  /\ \E r \in inflight :
       /\ r.kind = "image"
       /\ frames' = PatchFrame(frames, r.frameId, ImageErrorUpdates)
       /\ inflight' = inflight \ {r}
       /\ batch' = IF r.batch THEN [batch EXCEPT !.phase = "delay"] ELSE batch
  /\ UNCHANGED <<characters, scenes, nextId, audioBatch, generatingId,
                 isBatchGenerating, ops>>
  /\ UNCHANGED <<serviceSide, assetVars, pureVars>>

\* a test that looks at the image only
NeedsImageUnlessPresent(frame) == frame.generatedImageUrl = EmptyText

\* !frame.generatedImageUrl || frame.status === 'error'
NeedsImage(frame) ==
  frame.generatedImageUrl = EmptyText \/ frame.status = "error"

\* the next frame of fs, from position from on, the loop generates; past the
\* end of fs when there is none
NextToGenerate(fs, from) ==
  IF \E j \in from..Len(fs) : NeedsImage(fs[j])
    THEN CHOOSE j \in from..Len(fs) :
           /\ NeedsImage(fs[j])
           /\ \A k \in from..(j - 1) : ~NeedsImage(fs[k])
    ELSE Len(fs) + 1

\* handleGenerateAll, SceneTab.tsx 337-349, confirmed, up to its first await
HandleGenerateAll ==
  /\ batch.phase = "idle"
  /\ ops < MaxOps
  /\ ops' = ops + 1
  /\ Len(frames) > 0
  /\ LET j == NextToGenerate(frames, 1)
     IN  IF j > Len(frames)
           THEN /\ batch' = IdleBatch
                /\ UNCHANGED <<frames, inflight>>
           ELSE /\ StartGenerateFrame(frames[j], characters, scenes, TRUE)
                /\ batch' = [phase |-> "awaiting", i |-> j, frames |-> frames,
                             characters |-> characters, scenes |-> scenes]
  /\ UNCHANGED <<characters, scenes, nextId, audioBatch, generatingId,
                 isBatchGenerating>>
  /\ UNCHANGED <<serviceSide, assetVars, pureVars>>

\* await new Promise(r => setTimeout(r, 2000)) is over: the loop goes on
BatchDelayElapses ==
  /\ batch.phase = "delay"
  /\ LET j == NextToGenerate(batch.frames, batch.i + 1)
     IN  IF j > Len(batch.frames)
           THEN /\ batch' = IdleBatch
                /\ UNCHANGED <<frames, inflight>>
           ELSE /\ StartGenerateFrame(batch.frames[j], batch.characters,
                                      batch.scenes, TRUE)
                /\ batch' = [batch EXCEPT !.phase = "awaiting", !.i = j]
  /\ UNCHANGED <<characters, scenes, nextId, audioBatch, generatingId,
                 isBatchGenerating, ops>>
  /\ UNCHANGED <<serviceSide, assetVars, pureVars>>

\* a filter that keeps every frame whose dialogue is not empty
DialogueFramesUntrimmed(fs) ==
  SelectSeq(fs, LAMBDA f : f.dialogue # EmptyText)

\* frames.filter(f => f.dialogue && f.dialogue.trim().length > 0)
DialogueFrames(fs) ==
  SelectSeq(fs, LAMBDA f : f.dialogue # EmptyText /\ Len(Trim(f.dialogue)) > 0)

\* handleGenerateAudio, AudioTab.tsx 45-51, up to the awaited generateSpeech
HandleGenerateAudio ==
  /\ ops < MaxOps
  /\ \E i \in 1..Len(DialogueFrames(frames)) :
       LET frame == DialogueFrames(frames)[i]
       IN  /\ generatingId # frame.id
           /\ frame.audioUrl # EmptyText \/ ~isBatchGenerating
           /\ generatingId' = frame.id
           /\ inflight' = inflight \cup
                {Request(FreshRid, "audio", frame.id, EmptyText, FALSE)}
  /\ ops' = ops + 1
  /\ UNCHANGED <<characters, scenes, frames, nextId, batch, audioBatch,
                 isBatchGenerating>>
  /\ UNCHANGED <<serviceSide, assetVars, pureVars>>

\* handleGenerateAudio, AudioTab.tsx 53 and 57-59: generateSpeech resolved
AudioRequestSucceeds ==
  /\ \E r \in inflight, wavUrl \in AudioUrls :
       /\ r.kind = "audio"
       /\ ~r.batch
       /\ frames' = PatchFrame(frames, r.frameId, AudioUpdates(wavUrl))
       /\ inflight' = inflight \ {r}
  /\ generatingId' = 0
  /\ UNCHANGED <<characters, scenes, nextId, batch, audioBatch,
                 isBatchGenerating, ops>>
  /\ UNCHANGED <<serviceSide, assetVars, pureVars>>

\* handleGenerateAudio, AudioTab.tsx 54-59: generateSpeech rejected
AudioRequestFails ==
  /\ \E r \in inflight :
       /\ r.kind = "audio"
       /\ ~r.batch
       /\ inflight' = inflight \ {r}
  /\ generatingId' = 0
  /\ UNCHANGED <<characters, scenes, frames, nextId, batch, audioBatch,
                 isBatchGenerating, ops>>
  /\ UNCHANGED <<serviceSide, assetVars, pureVars>>

\* the next frame of fs, from position from on, without audio; past the end
\* of fs when there is none
NextWithoutAudio(fs, from) ==
  IF \E j \in from..Len(fs) : fs[j].audioUrl = EmptyText
    THEN CHOOSE j \in from..Len(fs) :
           /\ fs[j].audioUrl = EmptyText
           /\ \A k \in from..(j - 1) : fs[k].audioUrl # EmptyText
    ELSE Len(fs) + 1

\* handleGenerateAllAudio, AudioTab.tsx 66-77 from position from of the
\* loop on, up to the next awaited generateSpeech, or lines 88-90 when the
\* loop is over
AudioLoopFrom(fs, from) ==
  LET j == NextWithoutAudio(fs, from)
  IN  IF j > Len(fs)
        THEN /\ isBatchGenerating' = FALSE
             /\ generatingId' = 0
             /\ audioBatch' = IdleBatch
             /\ inflight' = {r \in inflight : ~(r.kind = "audio" /\ r.batch)}
        ELSE /\ isBatchGenerating' = TRUE
             /\ generatingId' = fs[j].id
             /\ audioBatch' = [phase |-> "awaiting", i |-> j, frames |-> fs,
                               characters |-> <<>>, scenes |-> <<>>]
             /\ inflight' = {r \in inflight : ~(r.kind = "audio" /\ r.batch)}
                  \cup {Request(FreshRid, "audio", fs[j].id, EmptyText, TRUE)}

\* handleGenerateAllAudio, AudioTab.tsx 62-77, up to its first await
HandleGenerateAllAudio ==
  /\ ~isBatchGenerating
  /\ audioBatch.phase = "idle"
  /\ ops < MaxOps
  /\ ops' = ops + 1
  /\ Len(DialogueFrames(frames)) > 0
  /\ AudioLoopFrom(DialogueFrames(frames), 1)
  /\ UNCHANGED <<characters, scenes, frames, nextId, batch>>
  /\ UNCHANGED <<serviceSide, assetVars, pureVars>>

\* handleGenerateAllAudio, AudioTab.tsx 79-82: generateSpeech resolved
BatchAudioSucceeds ==
  /\ audioBatch.phase = "awaiting"
  /\ \E r \in inflight, wavUrl \in AudioUrls :
       /\ r.kind = "audio"
       /\ r.batch
       /\ frames' = PatchFrame(frames, r.frameId, AudioUpdates(wavUrl))
       /\ inflight' = inflight \ {r}
  /\ audioBatch' = [audioBatch EXCEPT !.phase = "delay"]
  /\ UNCHANGED <<characters, scenes, nextId, batch, generatingId,
                 isBatchGenerating, ops>>
  /\ UNCHANGED <<serviceSide, assetVars, pureVars>>

\* handleGenerateAllAudio, AudioTab.tsx 83-85: generateSpeech rejected, and
\* the loop goes on at once
BatchAudioFails ==
  /\ audioBatch.phase = "awaiting"
  /\ \E r \in inflight : r.kind = "audio" /\ r.batch
  /\ AudioLoopFrom(audioBatch.frames, audioBatch.i + 1)
  /\ UNCHANGED <<characters, scenes, frames, nextId, batch, ops>>
  /\ UNCHANGED <<serviceSide, assetVars, pureVars>>

\* await new Promise(r => setTimeout(r, 500)) is over: the loop goes on
BatchAudioDelayElapses ==
  /\ audioBatch.phase = "delay"
  /\ AudioLoopFrom(audioBatch.frames, audioBatch.i + 1)
  /\ UNCHANGED <<characters, scenes, frames, nextId, batch, ops>>
  /\ UNCHANGED <<serviceSide, assetVars, pureVars>>

----------------------------------------------------------------------------
(* The batches of the character tab and of the scene tab.  The requests    *)
(* they await are kept in inflight with the id of the character or scene;  *)
(* the prompt handed to generateImage is not kept.                         *)

\* inflight without the request the batch of the given kind awaits
WithoutBatchRequest(kind) == {r \in inflight : ~(r.kind = kind /\ r.batch)}

\* a loop that requests all the remaining characters at once
CharLoopFromInParallel(cs, from) ==
  IF from > Len(cs)
    THEN /\ charBatch' = IdleBatch
         /\ inflight' = WithoutBatchRequest("character")
    ELSE /\ charBatch' = [phase |-> "awaiting", i |-> from, frames |-> <<>>,
                          characters |-> cs, scenes |-> <<>>]
         /\ inflight' = WithoutBatchRequest("character")
              \cup {Request(Cardinality(inflight) + 1 + k, "character",
                            cs[k].id, EmptyText, TRUE) : k \in from..Len(cs)}

\* CharacterTab.handleGenerateAll, CharacterTab.tsx 158-186, from position
\* from of the loop on, up to the next awaited generateImage
CharLoopFrom(cs, from) ==
  IF from > Len(cs)
    THEN /\ charBatch' = IdleBatch
         /\ inflight' = WithoutBatchRequest("character")
    ELSE /\ charBatch' = [phase |-> "awaiting", i |-> from, frames |-> <<>>,
                          characters |-> cs, scenes |-> <<>>]
         /\ inflight' = WithoutBatchRequest("character")
              \cup {Request(FreshRid, "character", cs[from].id, EmptyText,
                            TRUE)}

\* CharacterTab.handleGenerateAll, CharacterTab.tsx 147-164, confirmed, up
\* to its first await
CharacterHandleGenerateAll ==
  /\ charBatch.phase = "idle"
  /\ ops < MaxOps
  /\ ops' = ops + 1
  /\ Len(characters) > 0
  /\ CharLoopFrom(characters, 1)
  /\ UNCHANGED <<characters, scenes, frames, nextId, batch, audioBatch,
                 generatingId, isBatchGenerating, sceneBatch>>
  /\ UNCHANGED <<serviceSide, pureVars, tabVars>>

\* a commit into the list of the render the handler belongs to
CharacterImageSucceedsFromClosure ==
  /\ charBatch.phase = "awaiting"
  /\ \E r \in inflight, base64Img \in ImageUrls :
       /\ r.kind = "character"
       /\ r.batch
       /\ characters' = PatchFrame(charBatch.characters, r.frameId,
                                   [imageUrl |-> base64Img])
       /\ inflight' = inflight \ {r}
  /\ charBatch' = [charBatch EXCEPT !.phase = "delay"]
  /\ UNCHANGED <<scenes, frames, nextId, batch, audioBatch, generatingId,
                 isBatchGenerating, ops, sceneBatch>>
  /\ UNCHANGED <<serviceSide, pureVars, tabVars>>

\* a commit to the position the loop is at
CharacterImageSucceedsByPosition ==
  /\ charBatch.phase = "awaiting"
  /\ \E r \in inflight, base64Img \in ImageUrls :
       /\ r.kind = "character"
       /\ r.batch
       /\ characters' =
            [k \in 1..Len(characters) |->
               IF k = charBatch.i
                 THEN Patch(characters[k], [imageUrl |-> base64Img])
                 ELSE characters[k]]
       /\ inflight' = inflight \ {r}
  /\ charBatch' = [charBatch EXCEPT !.phase = "delay"]
  /\ UNCHANGED <<scenes, frames, nextId, batch, audioBatch, generatingId,
                 isBatchGenerating, ops, sceneBatch>>
  /\ UNCHANGED <<serviceSide, pureVars, tabVars>>

\* CharacterTab.tsx 164-178: generateImage resolved
CharacterImageSucceeds ==
  /\ charBatch.phase = "awaiting"
  /\ \E r \in inflight, base64Img \in ImageUrls :
       /\ r.kind = "character"
       /\ r.batch
       /\ characters' = PatchFrame(characters, r.frameId,
                                   [imageUrl |-> base64Img])
       /\ inflight' = inflight \ {r}
  /\ charBatch' = [charBatch EXCEPT !.phase = "delay"]
  /\ UNCHANGED <<scenes, frames, nextId, batch, audioBatch, generatingId,
                 isBatchGenerating, ops, sceneBatch>>
  /\ UNCHANGED <<serviceSide, pureVars, tabVars>>

\* a batch that ends at the first character that fails
CharacterImageFailsAborting ==
  /\ charBatch.phase = "awaiting"
  /\ \E r \in inflight : r.kind = "character" /\ r.batch
  /\ CharLoopFrom(charBatch.characters, Len(charBatch.characters) + 1)
  /\ UNCHANGED <<characters, scenes, frames, nextId, batch, audioBatch,
                 generatingId, isBatchGenerating, ops, sceneBatch>>
  /\ UNCHANGED <<serviceSide, pureVars, tabVars>>

\* CharacterTab.tsx 179-181: generateImage rejected, and the loop goes on
\* at once
CharacterImageFails ==
  /\ charBatch.phase = "awaiting"
  /\ \E r \in inflight : r.kind = "character" /\ r.batch
  /\ CharLoopFrom(charBatch.characters, charBatch.i + 1)
  /\ UNCHANGED <<characters, scenes, frames, nextId, batch, audioBatch,
                 generatingId, isBatchGenerating, ops, sceneBatch>>
  /\ UNCHANGED <<serviceSide, pureVars, tabVars>>

\* await new Promise(r => setTimeout(r, 1500)) is over: the loop goes on
CharacterDelayElapses ==
  /\ charBatch.phase = "delay"
  /\ CharLoopFrom(charBatch.characters, charBatch.i + 1)
  /\ UNCHANGED <<characters, scenes, frames, nextId, batch, audioBatch,
                 generatingId, isBatchGenerating, ops, sceneBatch>>
  /\ UNCHANGED <<serviceSide, pureVars, tabVars>>

\* SceneTab.handleGenerateAll, SceneTab.tsx 97-124, from position from of
\* the loop on, up to the awaited generateImage of the panorama
SceneLoopFrom(scs, from) ==
  IF from > Len(scs)
    THEN /\ sceneBatch' = IdleSceneBatch
         /\ inflight' = WithoutBatchRequest("panorama")
                           \cap WithoutBatchRequest("grid")
    ELSE /\ sceneBatch' = [phase |-> "awaitingPanorama", i |-> from,
                           scenes |-> scs, panImg |-> EmptyText]
         /\ inflight' = (WithoutBatchRequest("panorama")
                            \cap WithoutBatchRequest("grid"))
              \cup {Request(FreshRid, "panorama", scs[from].id, EmptyText,
                            TRUE)}

\* SceneTab.handleGenerateAll, SceneTab.tsx 90-103, confirmed, up to its
\* first await
SceneHandleGenerateAll ==
  /\ sceneBatch.phase = "idle"
  /\ ops < MaxOps
  /\ ops' = ops + 1
  /\ Len(scenes) > 0
  /\ SceneLoopFrom(scenes, 1)
  /\ UNCHANGED <<characters, scenes, frames, nextId, batch, audioBatch,
                 generatingId, isBatchGenerating, charBatch>>
  /\ UNCHANGED <<serviceSide, pureVars, tabVars>>

\* SceneTab.tsx 103-105: the panorama resolved, the wait of 1000 ms begins
ScenePanoramaSucceeds ==
  /\ sceneBatch.phase = "awaitingPanorama"
  /\ \E r \in inflight, panImg \in ImageUrls :
       /\ r.kind = "panorama"
       /\ r.batch
       /\ inflight' = inflight \ {r}
       /\ sceneBatch' = [sceneBatch EXCEPT !.phase = "between",
                                           !.panImg = panImg]
  /\ UNCHANGED <<characters, scenes, frames, nextId, batch, audioBatch,
                 generatingId, isBatchGenerating, ops, charBatch>>
  /\ UNCHANGED <<serviceSide, pureVars, tabVars>>

\* SceneTab.tsx 118-120: the panorama rejected, and the loop goes on at once
ScenePanoramaFails ==
  /\ sceneBatch.phase = "awaitingPanorama"
  /\ \E r \in inflight : r.kind = "panorama" /\ r.batch
  /\ SceneLoopFrom(sceneBatch.scenes, sceneBatch.i + 1)
  /\ UNCHANGED <<characters, scenes, frames, nextId, batch, audioBatch,
                 generatingId, isBatchGenerating, ops, charBatch>>
  /\ UNCHANGED <<serviceSide, pureVars, tabVars>>

\* SceneTab.tsx 105-109: the wait between the two calls is over, the grid
\* is requested
SceneGridRequested ==
  /\ sceneBatch.phase = "between"
  /\ inflight' = inflight
       \cup {Request(FreshRid, "grid", sceneBatch.scenes[sceneBatch.i].id,
                     EmptyText, TRUE)}
  /\ sceneBatch' = [sceneBatch EXCEPT !.phase = "awaitingGrid"]
  /\ UNCHANGED <<characters, scenes, frames, nextId, batch, audioBatch,
                 generatingId, isBatchGenerating, ops, charBatch>>
  /\ UNCHANGED <<serviceSide, pureVars, tabVars>>

\* SceneTab.tsx 109-117: the grid resolved, both images are committed
SceneGridSucceeds ==
  /\ sceneBatch.phase = "awaitingGrid"
  /\ \E r \in inflight, gridImg \in ImageUrls :
       /\ r.kind = "grid"
       /\ r.batch
       /\ scenes' = PatchFrame(scenes, r.frameId,
                               [imageUrl |-> sceneBatch.panImg,
                                gridUrl |-> gridImg])
       /\ inflight' = inflight \ {r}
  /\ sceneBatch' = [sceneBatch EXCEPT !.phase = "delay"]
  /\ UNCHANGED <<characters, frames, nextId, batch, audioBatch, generatingId,
                 isBatchGenerating, ops, charBatch>>
  /\ UNCHANGED <<serviceSide, pureVars, tabVars>>

\* SceneTab.tsx 118-120: the grid rejected, and the loop goes on at once
SceneGridFails ==
  /\ sceneBatch.phase = "awaitingGrid"
  /\ \E r \in inflight : r.kind = "grid" /\ r.batch
  /\ SceneLoopFrom(sceneBatch.scenes, sceneBatch.i + 1)
  /\ UNCHANGED <<characters, scenes, frames, nextId, batch, audioBatch,
                 generatingId, isBatchGenerating, ops, charBatch>>
  /\ UNCHANGED <<serviceSide, pureVars, tabVars>>

\* await new Promise(r => setTimeout(r, 1000)) after the commit is over: the
\* loop goes on
SceneDelayElapses ==
  /\ sceneBatch.phase = "delay"
  /\ SceneLoopFrom(sceneBatch.scenes, sceneBatch.i + 1)
  /\ UNCHANGED <<characters, scenes, frames, nextId, batch, audioBatch,
                 generatingId, isBatchGenerating, ops, charBatch>>
  /\ UNCHANGED <<serviceSide, pureVars, tabVars>>

----------------------------------------------------------------------------
(* The scene tab: deletion and the full set of one scene, SceneTab.tsx     *)
(* 38-42 and 58-88.  The prompts come from the edit form and are not kept. *)

\* SceneTab.handleDelete, SceneTab.tsx 38-42, confirmed
SceneHandleDelete ==
  /\ ops < MaxOps
  /\ \E j \in 1..Len(scenes) :
       scenes' = SelectSeq(scenes, LAMBDA s : s.id # scenes[j].id)
  /\ ops' = ops + 1
  /\ UNCHANGED <<characters, frames, nextId, inflight, batch, audioBatch,
                 generatingId, isBatchGenerating>>
  /\ UNCHANGED <<serviceSide, pureVars, charBatch, sceneBatch, tabVars>>

\* handleGenerateFullSet, SceneTab.tsx 58-65, with a scene selected, up to
\* the awaited generateImage of the panorama
HandleGenerateFullSet ==
  /\ fullSet.phase = "idle"
  /\ sceneBatch.phase = "idle"
  /\ ops < MaxOps
  /\ ops' = ops + 1
  /\ \E j \in 1..Len(scenes) :
       /\ fullSet' = [phase |-> "awaitingPanorama", id |-> scenes[j].id,
                      panImg |-> EmptyText]
       /\ inflight' = inflight
            \cup {Request(FreshRid, "panorama", scenes[j].id, EmptyText,
                          FALSE)}
  /\ UNCHANGED <<characters, scenes, frames, nextId, batch, audioBatch,
                 generatingId, isBatchGenerating>>
  /\ UNCHANGED <<serviceSide, pureVars, charBatch, sceneBatch, scriptStatus,
                 extractedData, worldData, activeTab>>

\* a full set that commits the panorama as soon as it has it
FullSetPanoramaCommitted ==
  /\ fullSet.phase = "awaitingPanorama"
  /\ \E r \in inflight, panoramaImg \in ImageUrls :
       /\ r.kind = "panorama"
       /\ ~r.batch
       /\ inflight' = inflight \ {r}
       /\ fullSet' = [fullSet EXCEPT !.phase = "between",
                                     !.panImg = panoramaImg]
       /\ scenes' = PatchFrame(scenes, fullSet.id, [imageUrl |-> panoramaImg])
  /\ UNCHANGED <<characters, frames, nextId, batch, audioBatch,
                 generatingId, isBatchGenerating, ops>>
  /\ UNCHANGED <<serviceSide, pureVars, charBatch, sceneBatch, scriptStatus,
                 extractedData, worldData, activeTab>>

\* SceneTab.tsx 65-68: the panorama resolved, the wait of 500 ms begins
FullSetPanoramaSucceeds ==
  /\ fullSet.phase = "awaitingPanorama"
  /\ \E r \in inflight, panoramaImg \in ImageUrls :
       /\ r.kind = "panorama"
       /\ ~r.batch
       /\ inflight' = inflight \ {r}
       /\ fullSet' = [fullSet EXCEPT !.phase = "between",
                                     !.panImg = panoramaImg]
  /\ UNCHANGED <<characters, scenes, frames, nextId, batch, audioBatch,
                 generatingId, isBatchGenerating, ops>>
  /\ UNCHANGED <<serviceSide, pureVars, charBatch, sceneBatch, scriptStatus,
                 extractedData, worldData, activeTab>>

\* SceneTab.tsx 82-87: the panorama rejected; finally clears isGenerating
FullSetPanoramaFails ==
  /\ fullSet.phase = "awaitingPanorama"
  /\ \E r \in inflight :
       /\ r.kind = "panorama"
       /\ ~r.batch
       /\ inflight' = inflight \ {r}
  /\ fullSet' = IdleFullSet
  /\ UNCHANGED <<characters, scenes, frames, nextId, batch, audioBatch,
                 generatingId, isBatchGenerating, ops>>
  /\ UNCHANGED <<serviceSide, pureVars, charBatch, sceneBatch, scriptStatus,
                 extractedData, worldData, activeTab>>

\* SceneTab.tsx 68-71: the wait is over, the grid is requested
FullSetGridRequested ==
  /\ fullSet.phase = "between"
  /\ inflight' = inflight
       \cup {Request(FreshRid, "grid", fullSet.id, EmptyText, FALSE)}
  /\ fullSet' = [fullSet EXCEPT !.phase = "awaitingGrid"]
  /\ UNCHANGED <<characters, scenes, frames, nextId, batch, audioBatch,
                 generatingId, isBatchGenerating, ops>>
  /\ UNCHANGED <<serviceSide, pureVars, charBatch, sceneBatch, scriptStatus,
                 extractedData, worldData, activeTab>>

\* SceneTab.tsx 71-80, 85-87: the grid resolved, both images are committed
FullSetGridSucceeds ==
  /\ fullSet.phase = "awaitingGrid"
  /\ \E r \in inflight, gridImg \in ImageUrls :
       /\ r.kind = "grid"
       /\ ~r.batch
       /\ scenes' = PatchFrame(scenes, fullSet.id,
                               [imageUrl |-> fullSet.panImg,
                                gridUrl |-> gridImg])
       /\ inflight' = inflight \ {r}
  /\ fullSet' = IdleFullSet
  /\ UNCHANGED <<characters, frames, nextId, batch, audioBatch, generatingId,
                 isBatchGenerating, ops>>
  /\ UNCHANGED <<serviceSide, pureVars, charBatch, sceneBatch, scriptStatus,
                 extractedData, worldData, activeTab>>

\* SceneTab.tsx 82-87: the grid rejected; finally clears isGenerating
FullSetGridFails ==
  /\ fullSet.phase = "awaitingGrid"
  /\ \E r \in inflight :
       /\ r.kind = "grid"
       /\ ~r.batch
       /\ inflight' = inflight \ {r}
  /\ fullSet' = IdleFullSet
  /\ UNCHANGED <<characters, scenes, frames, nextId, batch, audioBatch,
                 generatingId, isBatchGenerating, ops>>
  /\ UNCHANGED <<serviceSide, pureVars, charBatch, sceneBatch, scriptStatus,
                 extractedData, worldData, activeTab>>

----------------------------------------------------------------------------
(* The script tab, part_002 23-110.  Its state lives as long as the tab is  *)
(* shown (App.tsx 23-32): leaving the tab discards status and              *)
(* extractedData, and what a handleAnalyze still running sets afterwards    *)
(* is lost.  The script is taken to be non-blank.                          *)

\* what extractWorldInfo and analyzeScript resolve to
WorldDatas ==
  { [characters |-> e.characters, scenes |-> e.scenes] : e \in Extractions }

PanelLists == { e.panels : e \in Extractions }

\* handleAnalyze, part_002 30-36, up to the awaited extractWorldInfo; the
\* button is enabled in status idle and done
HandleAnalyze ==
  /\ activeTab = "script"
  /\ scriptStatus \in {"idle", "done"}
  /\ ops < MaxOps
  /\ ops' = ops + 1
  /\ scriptStatus' = "extracting"
  /\ worldData' = <<>>
  /\ UNCHANGED <<extractedData, activeTab, fullSet, charBatch, sceneBatch>>
  /\ UNCHANGED <<characters, scenes, frames, nextId, inflight, batch,
                 audioBatch, generatingId, isBatchGenerating>>
  /\ UNCHANGED <<serviceSide, pureVars>>

\* part_002 36-41: extractWorldInfo resolved, analyzeScript is called
ExtractWorldInfoResolves ==
  /\ activeTab = "script"
  /\ scriptStatus = "extracting"
  /\ \E w \in WorldDatas : worldData' = <<w>>
  /\ scriptStatus' = "storyboarding"
  /\ UNCHANGED <<extractedData, activeTab, fullSet, charBatch, sceneBatch>>
  /\ UNCHANGED <<boardVars, serviceSide, pureVars>>

\* part_002 50-54: extractWorldInfo rejected
ExtractWorldInfoRejects ==
  /\ activeTab = "script"
  /\ scriptStatus = "extracting"
  /\ scriptStatus' = "idle"
  /\ UNCHANGED <<extractedData, worldData, activeTab, fullSet, charBatch,
                 sceneBatch>>
  /\ UNCHANGED <<boardVars, serviceSide, pureVars>>

\* part_002 41-48: analyzeScript resolved
AnalyzeScriptResolves ==
  /\ activeTab = "script"
  /\ scriptStatus = "storyboarding"
  /\ \E panels \in PanelLists :
       extractedData' = <<[characters |-> worldData[1].characters,
                           scenes |-> worldData[1].scenes,
                           panels |-> panels]>>
  /\ scriptStatus' = "done"
  /\ worldData' = <<>>
  /\ UNCHANGED <<activeTab, fullSet, charBatch, sceneBatch>>
  /\ UNCHANGED <<boardVars, serviceSide, pureVars>>

\* a handler that keeps the characters and scenes when analyzeScript rejects
AnalyzeScriptRejectsKeepsWorld ==
  /\ activeTab = "script"
  /\ scriptStatus = "storyboarding"
  /\ extractedData' = <<[characters |-> worldData[1].characters,
                         scenes |-> worldData[1].scenes,
                         panels |-> <<>>]>>
  /\ scriptStatus' = "idle"
  /\ worldData' = <<>>
  /\ UNCHANGED <<activeTab, fullSet, charBatch, sceneBatch>>
  /\ UNCHANGED <<boardVars, serviceSide, pureVars>>

\* part_002 50-54: analyzeScript rejected
AnalyzeScriptRejects ==
  /\ activeTab = "script"
  /\ scriptStatus = "storyboarding"
  /\ scriptStatus' = "idle"
  /\ worldData' = <<>>
  /\ UNCHANGED <<extractedData, activeTab, fullSet, charBatch, sceneBatch>>
  /\ UNCHANGED <<boardVars, serviceSide, pureVars>>

\* handleApply, part_002 57-110, of the extractedData of this tab; its
\* setActiveTab(AppTab.CHARACTERS) takes the tab and its state away
HandleApplyExtracted ==
  /\ activeTab = "script"
  /\ extractedData # NoData
  /\ ops < MaxOps
  /\ ops' = ops + 1
  /\ ApplyExtraction(extractedData[1])
  /\ activeTab' = "other"
  /\ scriptStatus' = "idle"
  /\ extractedData' = NoData
  /\ worldData' = <<>>
  /\ UNCHANGED <<inflight, batch, audioBatch, generatingId,
                 isBatchGenerating>>
  /\ UNCHANGED <<fullSet, charBatch, sceneBatch, serviceSide, pureVars>>

\* another tab is chosen in the navigation (Layout): the script tab goes
LeaveScriptTab ==
  /\ activeTab = "script"
  /\ activeTab' = "other"
  /\ scriptStatus' = "idle"
  /\ extractedData' = NoData
  /\ worldData' = <<>>
  /\ UNCHANGED <<fullSet, charBatch, sceneBatch>>
  /\ UNCHANGED <<boardVars, serviceSide, pureVars>>

\* the script tab is chosen in the navigation: it is shown with fresh state
EnterScriptTab ==
  /\ activeTab = "other"
  /\ activeTab' = "script"
  /\ UNCHANGED <<scriptStatus, extractedData, worldData, fullSet, charBatch,
                 sceneBatch>>
  /\ UNCHANGED <<boardVars, serviceSide, pureVars>>

----------------------------------------------------------------------------
(* Specifications *)

InitRetry ==
  /\ rPc = "idle"
  /\ rN = 0
  /\ rBase = 0
  /\ retries = 0
  /\ delay = 0
  /\ attempts = 0
  /\ waits = <<>>
  /\ error = NoError
  /\ isTransient = FALSE
  /\ rResult = <<>>
  /\ rThrown = NoError

InitImage ==
  /\ gPc = "idle"
  /\ lastError = NoError
  /\ gResult = <<>>
  /\ gThrown = NoError
  /\ t1Outcome = NoOutcome
  /\ t2Outcome = NoOutcome
  /\ calls = <<>>

InitService ==
  /\ apiKey = EmptyText
  /\ op = "none"
  /\ sPc = "idle"
  /\ sResult = <<>>
  /\ sThrown = NoError

\* a key is stored in the browser
InitKeyStored ==
  /\ localKey = StoredKey
  /\ envKey = EmptyText

\* every combination of a stored key and a process-level key
InitKeys ==
  /\ localKey \in StoredKeys
  /\ envKey \in ProcessKeys

\* constructPanelPrompt has not been applied
InitPromptIdle ==
  /\ pPc = "idle"
  /\ pPanel = Panel(0, EmptyText, <<>>, EmptyText, EmptyText)
  /\ pRoster = <<>>
  /\ pScene = NoScene
  /\ pPrompt = EmptyText

\* pcmBase64ToWavUrl has not been applied
InitWavIdle ==
  /\ wPc = "idle"
  /\ wPcm = <<>>
  /\ wBase64 = EmptyText
  /\ wBlob = <<>>

InitPure == InitPromptIdle /\ InitWavIdle

Init ==
  InitRetry /\ InitImage /\ InitService /\ InitKeyStored /\ InitBoard
    /\ InitPure


NextRetry ==
  \/ WithRetryCall
  \/ OperationSucceeds
  \/ OperationFails
  \/ RetryBackoff

SpecRetry == Init /\ [][NextRetry]_vars


NextImage ==
  \/ GenerateImageCall
  \/ Tier1CallReturns
  \/ Tier1CallFails
  \/ ImageBackoff
  \/ Tier1Responded
  \/ Tier1Raised
  \/ Tier2CallReturns
  \/ Tier2CallFails
  \/ Tier2Responded
  \/ Tier2Raised

SpecImage == Init /\ [][NextImage]_vars

InitAnyKeys ==
  InitRetry /\ InitImage /\ InitService /\ InitKeys /\ InitBoard
    /\ InitPure

NextService ==
  \/ ExtractWorldInfoCall
  \/ AnalyzeScriptCall
  \/ GenerateSpeechCall
  \/ ServiceCallReturns
  \/ ServiceCallFails
  \/ ServiceBackoff
  \/ ServiceResponded
  \/ ServiceRaised
  \/ NextImage

SpecService == InitAnyKeys /\ [][NextService]_vars

NextStoryboard ==
  \/ HandleApply
  \/ HandleAssignScene
  \/ ToggleCharacterInFrame
  \/ HandleSave
  \/ HandleDelete
  \/ GenerateFrame
  \/ ImageRequestSucceeds
  \/ ImageRequestFails
  \/ HandleGenerateAll
  \/ BatchDelayElapses
  \/ HandleGenerateAudio
  \/ AudioRequestSucceeds
  \/ AudioRequestFails
  \/ HandleGenerateAllAudio
  \/ BatchAudioSucceeds
  \/ BatchAudioFails
  \/ BatchAudioDelayElapses

SpecStoryboard == Init /\ [][NextStoryboard]_vars

\* the four batches, with the extraction that fills the board and the
\* deletion of a character
NextBatches ==
  \/ HandleApply
  \/ HandleDelete
  \/ CharacterHandleGenerateAll
  \/ CharacterImageSucceeds
  \/ CharacterImageFails
  \/ CharacterDelayElapses
  \/ SceneHandleGenerateAll
  \/ ScenePanoramaSucceeds
  \/ ScenePanoramaFails
  \/ SceneGridRequested
  \/ SceneGridSucceeds
  \/ SceneGridFails
  \/ SceneDelayElapses
  \/ HandleGenerateAll
  \/ ImageRequestSucceeds
  \/ ImageRequestFails
  \/ BatchDelayElapses
  \/ HandleGenerateAllAudio
  \/ BatchAudioSucceeds
  \/ BatchAudioFails
  \/ BatchAudioDelayElapses

SpecBatches == Init /\ [][NextBatches]_vars

\* every awaited generateImage and generateSpeech call settles, and every
\* setTimeout a loop awaits fires
BatchesProgress ==
  /\ WF_vars(ImageRequestSucceeds \/ ImageRequestFails)
  /\ WF_vars(BatchDelayElapses)
  /\ WF_vars(BatchAudioSucceeds \/ BatchAudioFails)
  /\ WF_vars(BatchAudioDelayElapses)
  /\ WF_vars(CharacterImageSucceeds \/ CharacterImageFails)
  /\ WF_vars(CharacterDelayElapses)
  /\ WF_vars(ScenePanoramaSucceeds \/ ScenePanoramaFails)
  /\ WF_vars(SceneGridRequested)
  /\ WF_vars(SceneGridSucceeds \/ SceneGridFails)
  /\ WF_vars(SceneDelayElapses)

SpecBatchesLive == SpecBatches /\ BatchesProgress

\* the handlers that commit a result by id, with the deletions and the
\* replacement of the frames that can come between request and commit
NextAssets ==
  \/ HandleApply
  \/ HandleDelete
  \/ SceneHandleDelete
  \/ GenerateFrame
  \/ ImageRequestSucceeds
  \/ ImageRequestFails
  \/ HandleGenerateAudio
  \/ AudioRequestSucceeds
  \/ AudioRequestFails
  \/ CharacterHandleGenerateAll
  \/ CharacterImageSucceeds
  \/ CharacterImageFails
  \/ CharacterDelayElapses
  \/ HandleGenerateFullSet
  \/ FullSetPanoramaSucceeds
  \/ FullSetPanoramaFails
  \/ FullSetGridRequested
  \/ FullSetGridSucceeds
  \/ FullSetGridFails
  \/ SceneHandleGenerateAll
  \/ ScenePanoramaSucceeds
  \/ ScenePanoramaFails
  \/ SceneGridRequested
  \/ SceneGridSucceeds
  \/ SceneGridFails
  \/ SceneDelayElapses

SpecAssets == Init /\ [][NextAssets]_vars

\* the script tab
NextScript ==
  \/ HandleAnalyze
  \/ ExtractWorldInfoResolves
  \/ ExtractWorldInfoRejects
  \/ AnalyzeScriptResolves
  \/ AnalyzeScriptRejects
  \/ HandleApplyExtracted
  \/ LeaveScriptTab
  \/ EnterScriptTab

SpecScript == Init /\ [][NextScript]_vars

\* constructPanelPrompt applied to a panel, a roster and a scene
RosterCharacters ==
  { [id |-> 1, name |-> NameAl, visualPrompt |-> DnaAl, imageUrl |-> EmptyText],
    [id |-> 2, name |-> NameA, visualPrompt |-> DnaAlice, imageUrl |-> EmptyText],
    [id |-> 3, name |-> NameAliceSmith, visualPrompt |-> DnaSmith,
     imageUrl |-> EmptyText],
    [id |-> 4, name |-> NameB, visualPrompt |-> DnaBob, imageUrl |-> EmptyText] }

\* rosters of different characters, in every order
Rosters ==
  { r \in SeqsUpTo(RosterCharacters, MaxRoster) :
      \A i, j \in 1..Len(r) : i # j => r[i] # r[j] }

PanelNames == {NameA, NameAliceSmith, NameB}

PromptPanels ==
  { Panel(1, VisualA, names, EmptyText, WideShot) :
      names \in SeqsUpTo(PanelNames, MaxNames) }

HarborScene ==
  [id |-> 5, name |-> HarborName, visualPrompt |-> HarborDna,
   imageUrl |-> EmptyText, gridUrl |-> EmptyText]

PromptScenes == {NoScene, HarborScene}

InitPrompt ==
  /\ InitRetry /\ InitImage /\ InitService /\ InitKeyStored /\ InitBoard
  /\ InitWavIdle
  /\ pPc = "idle"
  /\ pPanel \in PromptPanels
  /\ pRoster \in Rosters
  /\ pScene \in PromptScenes
  /\ pPrompt = EmptyText

ConstructPanelPromptCall ==
  /\ pPc = "idle"
  /\ pPrompt' = ConstructPanelPrompt(pPanel, pRoster, pScene)
  /\ pPc' = "returned"
  /\ UNCHANGED <<pPanel, pRoster, pScene, wPc, wPcm, wBase64, wBlob>>
  /\ UNCHANGED <<serviceSide, boardVars, assetVars>>

NextPrompt == ConstructPanelPromptCall

SpecPrompt == InitPrompt /\ [][NextPrompt]_vars

\* pcmBase64ToWavUrl applied to the base64 text of a PCM payload
SampleBytes == {0, 65, 255}

\* payloads long enough for a size of more than one byte
LongLengths == {220, 256, 300}

PcmPayloads ==
  SeqsUpTo(SampleBytes, MaxPcm)
    \cup { [i \in 1..n |-> (7 * i) % 256] : n \in LongLengths }

\* the 24 bits of the g-th group of three bytes of b, bytes the last group
\* lacks counting as zero
ByteGroup(b, g) ==
  LET v(k) == IF 3 * g + k <= Len(b) THEN b[3 * g + k] ELSE 0
  IN  v(1) * 65536 + v(2) * 256 + v(3)

\* the base64 text of bytes b, as the provider encodes it: four characters
\* for every three bytes, "=" where the last group has no byte to encode
Btoa(b) ==
  [i \in 1..(4 * ((Len(b) + 2) \div 3)) |->
     LET g == (i - 1) \div 4
         k == (i - 1) % 4
     IN  IF k >= 2 /\ 3 * g + k > Len(b)
           THEN "="
           ELSE Base64Alphabet[
                  ((ByteGroup(b, g) \div (64 ^ (3 - k))) % 64) + 1]]

InitWav ==
  /\ InitRetry /\ InitImage /\ InitService /\ InitKeyStored /\ InitBoard
  /\ InitPromptIdle
  /\ wPc = "idle"
  /\ wPcm \in PcmPayloads
  /\ wBase64 = Btoa(wPcm)
  /\ wBlob = <<>>

PcmBase64ToWavUrlCall ==
  /\ wPc = "idle"
  /\ wPc' = IF PcmBase64ToWavUrl(wBase64).ok THEN "returned" ELSE "thrown"
  /\ wBlob' = PcmBase64ToWavUrl(wBase64).url.bytes
  /\ UNCHANGED <<wPcm, wBase64, pPc, pPanel, pRoster, pScene, pPrompt>>
  /\ UNCHANGED <<serviceSide, boardVars, assetVars>>

NextWav == PcmBase64ToWavUrlCall

SpecWav == InitWav /\ [][NextWav]_vars

----------------------------------------------------------------------------
(* Properties of withRetry *)

\* the status codes and the substrings the specification names
TransientCodes == {500, 502, 503, 504}

NetworkFailureSubstrings ==
  {RpcFailed, XhrError, FetchFailed, NetworkErrorText, LoadFailed, NetworkTimeout}

HasNetworkFailureSubstring(s) ==
  \E p \in NetworkFailureSubstrings : Includes(s, p)

\* an attempt has failed in the current frame and its error is held in error
Caught == error.id > 0

\* the text withRetry searches: the message, or the string form of the error
\* when the message is empty, then a space and the nested error.message when
\* that one is not empty
SearchedText(e) ==
  (IF e.message = EmptyText THEN e.str ELSE e.message)
    \o (IF e.errMessage = EmptyText THEN EmptyText ELSE <<" ">> \o e.errMessage)

NoCodeInAnyField(e) ==
  /\ e.status \notin TransientCodes
  /\ e.respStatus \notin TransientCodes
  /\ e.errCode \notin TransientCodes

\* C1: with retry count N, withRetry invokes the operation at most N+1 times;
\* when it fails on a transient failure it has made exactly N+1 attempts, and
\* once the (N+1)-th attempt has failed it has failed: there is no (N+2)-th.
C1_AtMostNPlusOneAttempts ==
  /\ attempts <= rN + 1
  /\ (rPc = "thrown" /\ isTransient) => attempts = rN + 1
  /\ (Caught /\ attempts = rN + 1) => rPc = "thrown"

C1_Witness ==
  /\ rPc = "thrown"
  /\ isTransient
  /\ rN = DefaultRetries
  /\ attempts = DefaultRetries + 1

C3_ExponentialBackoff ==
  /\ \A k \in 1..Len(waits) : waits[k] = rBase * 2^(k - 1)
  /\ rPc = "calling" => Len(waits) = attempts
  /\ rPc \in {"waiting", "returned", "thrown"} => Len(waits) = attempts - 1

C3_Witness ==
  /\ rN = DefaultRetries
  /\ waits = <<2000, 4000, 8000>>

\* C4: the error withRetry raises is the error value the failing (last)
\* attempt raised, unaltered.
C4_OriginalErrorPropagated ==
  /\ rPc = "thrown" => (Caught /\ rThrown = error /\ error.id = attempts)
  /\ rPc # "thrown" => rThrown = NoError

C4_Witness ==
  /\ rPc = "thrown"
  /\ attempts = 3
  /\ ~isTransient
  /\ rThrown.errMessage = QuotaText

\* C5 as stated: a code of {500,502,503,504} in any of the three fields makes
\* the failure transient, whatever the other two fields hold.
C5_AnyFieldDecides ==
  (/\ Caught
   /\ \/ error.status \in TransientCodes
      \/ error.respStatus \in TransientCodes
      \/ error.errCode \in TransientCodes)
  => isTransient

\* C5 amended: the fields are read in the order top-level status, nested
\* response status, nested error code, and the first non-zero one decides: a
\* failure is transient when that one is in {500,502,503,504}; when it is a
\* different code and the text holds no network-failure substring, the
\* failure is non-transient even if a later field holds a code of the set.
C5_FirstPresentFieldDecides ==
  Caught =>
    /\ error.status \in TransientCodes => isTransient
    /\ (error.status = 0 /\ error.respStatus \in TransientCodes) => isTransient
    /\ (error.status = 0 /\ error.respStatus = 0 /\ error.errCode \in TransientCodes)
         => isTransient
    /\ (/\ ~HasNetworkFailureSubstring(SearchedText(error))
        /\ \/ error.status \notin TransientCodes \cup {0}
           \/ error.status = 0 /\ error.respStatus \notin TransientCodes \cup {0})
         => ~isTransient

C5_Witness ==
  /\ Caught
  /\ error.status = 0
  /\ error.respStatus = 0
  /\ error.errCode = 502
  /\ isTransient
  /\ rPc = "waiting"

\* C6 as stated: transient when the message or the nested error.message
\* contains a network-failure substring; non-transient when neither message
\* contains one and no field holds a code of {500,502,503,504}.
C6_EitherMessageDecides ==
  Caught =>
    /\ (\/ HasNetworkFailureSubstring(error.message)
        \/ HasNetworkFailureSubstring(error.errMessage)) => isTransient
    /\ (/\ ~HasNetworkFailureSubstring(error.message)
        /\ ~HasNetworkFailureSubstring(error.errMessage)
        /\ NoCodeInAnyField(error)) => ~isTransient

\* C6 amended: transient when the message or the nested error.message
\* contains a network-failure substring; non-transient when the searched text
\* (message, or the error's string form when the message is empty, followed
\* by a space and the nested message when there is one) contains none and no
\* field holds a code of {500,502,503,504}.
C6_SearchedTextDecides ==
  Caught =>
    /\ (\/ HasNetworkFailureSubstring(error.message)
        \/ HasNetworkFailureSubstring(error.errMessage)) => isTransient
    /\ (/\ ~HasNetworkFailureSubstring(SearchedText(error))
        /\ NoCodeInAnyField(error)) => ~isTransient

C6_Witness ==
  /\ Caught
  /\ error.message = BadRequest
  /\ error.errMessage = NetworkTimeout
  /\ error.status = 404
  /\ isTransient

----------------------------------------------------------------------------
(* Properties of generateImage *)

HasInlineImage(parts) == \E i \in 1..Len(parts) : parts[i].inlineData # <<>>

HasText(parts) == \E i \in 1..Len(parts) : parts[i].text # EmptyText

Tier2CallIssued == \E i \in 1..Len(calls) : calls[i].tier = 2

\* Tier 1 is settled and yielded no image: it raised an error, or returned a
\* response without an inline image
Tier1NoImage ==
  \/ t1Outcome.kind = "err"
  \/ t1Outcome.kind = "resp" /\ ~HasInlineImage(t1Outcome.parts)

\* C7: when Tier 1 returned a text part and no inline image, generateImage
\* goes on to Tier 2 and does not finish without a Tier 2 call; when Tier 2
\* then returned image bytes, the result is 'data:image/jpeg;base64,' followed
\* by those bytes and no error is raised.
C7_RefusalFallsBackToTier2 ==
  (/\ t1Outcome.kind = "resp"
   /\ HasText(t1Outcome.parts)
   /\ ~HasInlineImage(t1Outcome.parts))
  => /\ gPc \in {"tier2", "returned", "thrown"}
     /\ gPc \in {"returned", "thrown"} => Tier2CallIssued
     /\ (t2Outcome.kind = "resp" /\ Len(t2Outcome.parts) > 0
           /\ t2Outcome.parts[1] # EmptyText)
        => /\ gPc = "returned"
           /\ gResult = <<JpegPrefix \o t2Outcome.parts[1]>>
           /\ gThrown = NoError

C7_Witness ==
  /\ t1Outcome.kind = "resp"
  /\ HasText(t1Outcome.parts)
  /\ ~HasInlineImage(t1Outcome.parts)
  /\ t2Outcome = RespOutcome(<<JpgA>>)
  /\ gPc = "returned"
  /\ gResult = <<JpegPrefix \o JpgA>>

\* C8: when the Tier 1 response holds an inline image in any of its parts,
\* the result is 'data:image/png;base64,' followed by the payload of the first
\* such part, and no Tier 2 call is ever issued.
C8_Tier1ImageWins ==
  (t1Outcome.kind = "resp" /\ HasInlineImage(t1Outcome.parts))
  => /\ gPc = "returned"
     /\ gThrown = NoError
     /\ ~Tier2CallIssued
     /\ \E i \in 1..Len(t1Outcome.parts) :
          /\ t1Outcome.parts[i].inlineData # <<>>
          /\ \A j \in 1..(i - 1) : t1Outcome.parts[j].inlineData = <<>>
          /\ gResult = <<PngPrefix \o t1Outcome.parts[i].inlineData[1]>>

C8_Witness ==
  /\ t1Outcome.kind = "resp"
  /\ Len(t1Outcome.parts) = 2
  /\ t1Outcome.parts[1] = [inlineData |-> <<>>, text |-> SorryText]
  /\ t1Outcome.parts[2] = [inlineData |-> <<ImgB>>, text |-> EmptyText]
  /\ gPc = "returned"
  /\ gResult = <<PngPrefix \o ImgB>>

\* C9: once a Tier 1 upstream call has returned successfully, no further
\* Tier 1 call is issued: every later upstream call is a Tier 2 call, and when
\* the response held no image generateImage has left Tier 1.
C9_NoTier1AfterTier1Response ==
  /\ \A i \in 1..Len(calls) :
       (calls[i].tier = 1 /\ calls[i].ok)
         => \A j \in (i + 1)..Len(calls) : calls[j].tier = 2
  /\ (t1Outcome.kind = "resp" /\ ~HasInlineImage(t1Outcome.parts))
       => gPc # "tier1"

C9_Witness ==
  /\ t1Outcome.kind = "resp"
  /\ ~HasInlineImage(t1Outcome.parts)
  /\ ~HasText(t1Outcome.parts)
  /\ Len(calls) = 3
  /\ calls[1] = [tier |-> 1, ok |-> FALSE]
  /\ calls[2] = [tier |-> 1, ok |-> TRUE]
  /\ calls[3].tier = 2

\* the diagnostic Tier 1 left behind: its own error, or the refusal built
\* from the leading RefusalChars characters of the first text part, or the
\* empty-response message
RefusalMessage(parts) ==
  LET i == CHOOSE k \in 1..Len(parts) :
             /\ parts[k].text # EmptyText
             /\ \A j \in 1..(k - 1) : parts[j].text = EmptyText
      t == parts[i].text
  IN  RefusalPrefix
        \o [k \in 1..(IF Len(t) > RefusalChars THEN RefusalChars ELSE Len(t)) |-> t[k]]
        \o Ellipsis

CarriesTier1Diagnostic(e) ==
  /\ t1Outcome.kind = "err" => e = t1Outcome.err
  /\ (t1Outcome.kind = "resp" /\ HasText(t1Outcome.parts))
       => e.message = RefusalMessage(t1Outcome.parts)
  /\ (t1Outcome.kind = "resp" /\ ~HasText(t1Outcome.parts))
       => e.message = EmptyDataText

\* C10: when Tier 1 yielded no image and Tier 2 yielded none either (it
\* raised an error or returned no image bytes), generateImage fails; whenever
\* it fails the error raised carries Tier 1's diagnostic, and it is never the
\* error Tier 2 raised.
C10_Tier1DiagnosticPreferred ==
  /\ (/\ Tier1NoImage
      /\ \/ t2Outcome.kind = "err"
         \/ t2Outcome.kind = "resp" /\ Tier2Bytes(t2Outcome.parts) = EmptyText)
       => gPc = "thrown"
  /\ gPc = "thrown"
       => /\ Tier1NoImage
          /\ gResult = <<>>
          /\ CarriesTier1Diagnostic(gThrown)
          /\ t2Outcome.kind = "err" => gThrown # t2Outcome.err
  /\ gPc # "thrown" => gThrown = NoError

C10_Witness ==
  /\ gPc = "thrown"
  /\ t1Outcome.kind = "resp"
  /\ Len(t1Outcome.parts) = 1
  /\ t1Outcome.parts[1].text = LongText
  /\ t2Outcome.kind = "err"
  /\ Len(gThrown.message) = Len(RefusalPrefix) + RefusalChars + Len(Ellipsis)

----------------------------------------------------------------------------
(* Properties of the service operations *)

NoCredential == localKey = <<>> /\ envKey = <<>>
BothCredentials == localKey # <<>> /\ envKey # <<>>
NoUpstreamActivity == calls = <<>> /\ attempts = 0 /\ waits = <<>>
IsCredentialMissing(e) == e.id = 0 /\ e.message = ApiKeyMissingText

\* C11: each of extractWorldInfo, analyzeScript, generateSpeech and
\* generateImage, started with neither the stored nor the process-level
\* credential, has failed with the credential-missing error without any
\* upstream call, attempt or backoff wait; started with both credentials, it
\* uses the stored one.
C11_CredentialResolution ==
  /\ (NoCredential /\ sPc # "idle") =>
       /\ op \in {"extractWorldInfo", "analyzeScript", "generateSpeech"}
       /\ sPc = "thrown"
       /\ IsCredentialMissing(sThrown)
       /\ NoUpstreamActivity
  /\ (NoCredential /\ gPc # "idle") =>
       /\ gPc = "thrown"
       /\ IsCredentialMissing(gThrown)
       /\ NoUpstreamActivity
  /\ (BothCredentials /\ (sPc # "idle" \/ gPc # "idle")) => apiKey = localKey

C11_Witness ==
  \/ NoCredential /\ gPc = "thrown"
  \/ NoCredential /\ sPc = "thrown" /\ op = "generateSpeech"

\* the operation has run the code after its awaited call on a response
Responded(o) == op = o /\ rPc = "returned" /\ sPc \in {"returned", "thrown"}

TheResponse == rResult[1]

\* the response carries no text
BodyAbsent == ~TheResponse.present \/ (TheResponse.ws = 0 /\ TheResponse.toks = <<>>)

\* the response carries a text that is not a JSON text: white space only, a
\* JSON text cut short, or one with a token too many
BodyMalformed ==
  /\ TheResponse.present
  /\ \/ TheResponse.ws > 0 /\ TheResponse.toks = <<>>
     \/ TheResponse.toks \in ExtractMalformed \cup AnalyzeMalformed

IsParseError(e) ==
  /\ e.id = 0
  /\ e.message \in {FailedEntitiesText, FailedAnalyzeText, InvalidJsonText}

\* the array the extraction returns for a member given as c
ReturnedList(c) == IF c.t = "arr" THEN c ELSE JArr(<<>>)

\* C12: extractWorldInfo and analyzeScript fail with a parse error when the
\* response body is absent or is not valid JSON; extractWorldInfo, on a JSON
\* object, returns the characters and the scenes it holds, an empty array
\* standing for a list that is missing.
C12_ParseFailuresAndDefaults ==
  /\ \A o \in {"extractWorldInfo", "analyzeScript"} :
       (Responded(o) /\ (BodyAbsent \/ BodyMalformed)) =>
          sPc = "thrown" /\ IsParseError(sThrown)
  /\ \A c \in EntityLists, d \in EntityLists :
       (Responded("extractWorldInfo")
          /\ TheResponse.present
          /\ TheResponse.toks = Stringify(WorldInfoOf(c, d))) =>
          /\ sPc = "returned"
          /\ sResult[1].keys = <<CharactersKey, ScenesKey>>
          /\ sResult[1].items = <<ReturnedList(c), ReturnedList(d)>>

C12_Witness ==
  /\ Responded("extractWorldInfo")
  /\ sPc = "returned"
  /\ TheResponse.toks = Stringify(WorldInfoOf(JUndef, JArr(<<EntityOf(NameA)>>)))
  /\ sResult[1].items = <<JArr(<<>>), JArr(<<EntityOf(NameA)>>)>>

DescriptionTexts ==
  [x \in VisualActions \X CharLists \X Dialogues |->
     Stringify(JArr(<<PanelOf(JNum(7), x[1], x[2], x[3], JStr(WideShot))>>))]

NumberTexts ==
  [x \in PanelIds \X ShotTypes |->
     Stringify(JArr(<<PanelOf(x[1], JStr(VisualA), JArr(<<JStr(NameA)>>),
                              JStr(ShortDialogue), x[2])>>))]

\* the texts of the longer responses, by the members of their elements
SequenceTexts ==
  [s \in SeqsUpTo(ElementArgs, MaxPanels) |->
     Stringify(JArr([i \in 1..Len(s) |-> PanelOfArgs(s[i])]))]

AnalyzeReturned == Responded("analyzeScript") /\ sPc = "returned"

ThePanels == sResult[1]

IsBlankText(t) == \A i \in 1..Len(t) : t[i] \in {" ", "\t", "\n", "\r"}

\* the visual-action text is missing, empty, blank or the sentinel
VisualUnusable(va) ==
  \/ va.t # "str"
  \/ IsBlankText(va.s)
  \/ va.s = <<"N","o"," ","d","e","s","c","r","i","p","t","i","o","n"," ",
              "g","e","n","e","r","a","t","e","d",".">>

TextOf(v) == IF v.t = "str" THEN v.s ELSE <<>>

\* the character names joined, or "Character" if there is none
NamesOrCharacter(cs) ==
  IF cs.t # "arr" \/ Len(cs.items) = 0 THEN <<"C","h","a","r","a","c","t","e","r">>
  ELSE IF Len(cs.items) = 1 THEN cs.items[1].s
  ELSE cs.items[1].s \o <<"&">> \o cs.items[2].s

First15(d) == IF Len(d) <= 15 THEN d ELSE SubSeq(d, 1, 15)

\* the description the claim gives for a panel with these members
ClaimedDescription(va, cs, dt) ==
  IF ~VisualUnusable(va) THEN va.s
  ELSE IF TextOf(dt) # <<>>
    THEN NamesOrCharacter(cs) \o SayingText \o First15(TextOf(dt)) \o RecoveryTail
    ELSE EstablishingText

\* C14: every panel analyzeScript returns has the provider's visual-action
\* text as its description, unless that text is missing, empty, blank or the
\* sentinel: then the description is synthesized from the character names
\* and the first 15 characters of the dialogue, or is the generic
\* establishing-shot text when there is no dialogue.  No returned description
\* is empty.
C14_DescriptionRecovery ==
  AnalyzeReturned =>
    /\ \A x \in DOMAIN DescriptionTexts :
         TheResponse.toks = DescriptionTexts[x] =>
           /\ Len(ThePanels) = 1
           /\ ThePanels[1].description = ClaimedDescription(x[1], x[2], x[3])
    /\ \A s \in DOMAIN SequenceTexts :
         TheResponse.toks = SequenceTexts[s] =>
           /\ Len(ThePanels) = Len(s)
           /\ \A i \in 1..Len(s) :
                ThePanels[i].description =
                  ClaimedDescription(s[i][2], s[i][3], s[i][4])
    /\ \A i \in 1..Len(ThePanels) : ThePanels[i].description # <<>>

C14_Witness ==
  /\ AnalyzeReturned
  /\ TheResponse.toks =
       DescriptionTexts[<<JStr(NoDescriptionText),
                          JArr(<<JStr(NameA), JStr(NameB)>>),
                          JStr(LongDialogue)>>]
  /\ ThePanels[1].description =
       NameA \o <<"&">> \o NameB \o SayingText
         \o SubSeq(LongDialogue, 1, 15) \o RecoveryTail

ClaimedNumber(id) == IF id.t = "num" THEN id.n ELSE 0

\* C15: analyzeScript returns one panel per element of the provider's array,
\* in the provider's order; a panel's number is the element's panel_id when
\* that is a number, and 0 when it is omitted or is not a number.
C15_OnePanelPerElementInOrder ==
  AnalyzeReturned =>
    /\ \A x \in DOMAIN NumberTexts :
         TheResponse.toks = NumberTexts[x] =>
           /\ Len(ThePanels) = 1
           /\ ThePanels[1].panelNumber = ClaimedNumber(x[1])
    /\ \A s \in DOMAIN SequenceTexts :
         TheResponse.toks = SequenceTexts[s] =>
           /\ Len(ThePanels) = Len(s)
           /\ \A i \in 1..Len(s) :
                /\ ThePanels[i].panelNumber = ClaimedNumber(s[i][1])
                /\ ThePanels[i].dialogue = TextOf(s[i][4])
                /\ ThePanels[i].description =
                     ClaimedDescription(s[i][2], s[i][3], s[i][4])

C15_Witness ==
  /\ AnalyzeReturned
  /\ Len(ThePanels) = MaxPanels
  /\ ThePanels[1].panelNumber = 2
  /\ ThePanels[2].panelNumber = 0
  /\ ThePanels[1].description = VisualA
  /\ ThePanels[2].description = EstablishingText

----------------------------------------------------------------------------
(* Properties of the storyboard *)

\* the frames in order, each with its panel number
FrameNumbers(fs) == [i \in 1..Len(fs) |-> <<fs[i].id, fs[i].panelNumber>>]

\* C16: panel numbers are assigned once: a step that creates no frames (a
\* scene assigned, a character toggled, a frame generated, a batch of images,
\* single or batch audio, a character saved or deleted) leaves the frames in
\* their order and every frame with its panelNumber.
C16_PanelNumbersAssignedOnce ==
  [][nextId' = nextId => FrameNumbers(frames') = FrameNumbers(frames)]_vars

C16_Witness ==
  /\ Len(frames) = 3
  /\ frames[1].panelNumber = 7
  /\ frames[2].panelNumber = 0
  /\ frames[1].status = "done"
  /\ frames[2].audioUrl # <<>>
  /\ frames[2].status = "error"

\* C17: every frame's stored currentPrompt is the panel prompt computed from
\* the frame's panel fields, the character roster and the scene bound by
\* assignedSceneId, as they are now.
C17_PromptAlwaysRecomputable ==
  \A i \in 1..Len(frames) :
    frames[i].currentPrompt =
      ConstructPanelPrompt(frames[i], characters,
                           FindScene(scenes, frames[i].assignedSceneId))

\* C18: no frame's status changes directly from 'error' to 'done': a frame
\* whose status becomes 'done' was 'generating' before the step.  audioStatus
\* likewise.
C18_DoneOnlyFromGenerating ==
  [][\A i \in 1..Len(frames) :
       (i <= Len(frames') /\ frames'[i].id = frames[i].id) =>
         /\ (frames'[i].status = "done" /\ frames[i].status # "done")
              => frames[i].status = "generating"
         /\ (frames'[i].audioStatus = "done" /\ frames[i].audioStatus # "done")
              => frames[i].audioStatus = "generating"]_vars

ImageRequests(reqs) == {r \in reqs : r.kind = "image"}
AudioRequests(reqs) == {r \in reqs : r.kind = "audio"}

\* a step of image generation: an image request starts or ends, or the image
\* batch moves
ImageGenerationStep ==
  ImageRequests(inflight') # ImageRequests(inflight) \/ batch' # batch

\* a step of audio generation: a speech request starts or ends, or the audio
\* batch moves
AudioGenerationStep ==
  AudioRequests(inflight') # AudioRequests(inflight) \/ audioBatch' # audioBatch

AudioState(fs) ==
  [i \in 1..Len(fs) |-> <<fs[i].id, fs[i].audioUrl, fs[i].audioStatus>>]

ImageState(fs) ==
  [i \in 1..Len(fs) |->
     <<fs[i].id, fs[i].status, fs[i].generatedImageUrl, fs[i].currentPrompt>>]

\* C19: image generation (single or batch) changes no frame's audioUrl or
\* audioStatus; audio generation (single or batch) changes no frame's
\* status, generatedImageUrl or currentPrompt.
C19_ImageAndAudioIndependent ==
  [][/\ ImageGenerationStep => AudioState(frames') = AudioState(frames)
     /\ AudioGenerationStep => ImageState(frames') = ImageState(frames)]_vars

C19_Witness ==
  /\ Len(frames) = 2
  /\ frames[1].status = "error"
  /\ frames[1].generatedImageUrl = <<>>
  /\ frames[1].audioUrl # <<>>
  /\ inflight = {}

----------------------------------------------------------------------------
(* Properties of constructPanelPrompt *)

\* the line the prompt holds for a character name and a visual DNA
ClaimedLine(name, dna) ==
  <<"\n", "-", " ", "(">> \o name \o <<")", ":", " ">> \o dna

\* C21: whenever the roster holds a character whose name equals a name of
\* the panel, the line of that name carries that character's visual DNA,
\* whatever the order of the roster and whatever substring matches come
\* before it.
C21_ExactMatchFirst ==
  pPc = "returned" =>
    \A i \in 1..Len(pPanel.charactersPresent), k \in 1..Len(pRoster) :
      pRoster[k].name = pPanel.charactersPresent[i]
        => Includes(pPrompt,
                    ClaimedLine(pPanel.charactersPresent[i],
                                pRoster[k].visualPrompt))

\* one name is part of the other
Related(a, b) == Includes(a, b) \/ Includes(b, a)

\* the visual DNA a name may be given: that of a roster character whose name
\* contains it or is contained in it, the placeholder when there is none
GenericLineText ==
  <<"G","e","n","e","r","i","c"," ","a","n","i","m","e"," ",
    "c","h","a","r","a","c","t","e","r",".">>

DnaFor(roster, name) ==
  IF \E k \in 1..Len(roster) : Related(roster[k].name, name)
    THEN { roster[k].visualPrompt :
             k \in { m \in 1..Len(roster) : Related(roster[m].name, name) } }
    ELSE {GenericLineText}

RECURSIVE ClaimedLines(_, _)

\* the lines of a list of names, given the DNA chosen for each
ClaimedLines(names, dnas) ==
  IF Len(names) = 0 THEN <<>>
  ELSE ClaimedLine(Head(names), Head(dnas))
         \o ClaimedLines(Tail(names), Tail(dnas))

EndsWith(s, t) ==
  Len(t) <= Len(s) /\ SubSeq(s, Len(s) - Len(t) + 1, Len(s)) = t

CharactersHeading == <<"[","C","H","A","R","A","C","T","E","R","S","]">>

\* C22: the prompt ends with one line per name of the panel, in the order
\* of the list; the line of a name that contains a roster name or is
\* contained in one carries the visual DNA of such a roster character, the
\* line of a name related to no roster name carries the placeholder; with no
\* names there is no characters section.
C22_FuzzyMatchOrPlaceholder ==
  pPc = "returned" =>
    LET names == pPanel.charactersPresent
    IN  IF Len(names) = 0
          THEN ~Includes(pPrompt, CharactersHeading)
          ELSE \E dnas \in [1..Len(names) ->
                              UNION {DnaFor(pRoster, names[i]) :
                                       i \in 1..Len(names)}] :
                 /\ \A i \in 1..Len(names) :
                      dnas[i] \in DnaFor(pRoster, names[i])
                 /\ EndsWith(pPrompt,
                             <<"\n">> \o CharactersHeading \o <<":">>
                               \o ClaimedLines(names, dnas))

\* "AliceSmith" against a roster holding "Alice" and no "AliceSmith", then
\* "Bob" against a roster without Bob
C22_Witness ==
  /\ pPc = "returned"
  /\ pPanel.charactersPresent = <<NameAliceSmith, NameB>>
  /\ pRoster = <<[id |-> 2, name |-> NameA, visualPrompt |-> DnaAlice,
                  imageUrl |-> EmptyText]>>
  /\ Includes(pPrompt, ClaimedLine(NameAliceSmith, DnaAlice))
  /\ Includes(pPrompt, ClaimedLine(NameB, GenericLineText))

LocationHeading == <<"[","L","O","C","A","T","I","O","N","]"," ">>

AmbienceLine ==
  <<"A","t","m","o","s","p","h","e","r","i","c"," ","b","a","c","k",
    "g","r","o","u","n","d",","," ","m","a","t","c","h","i","n","g",
    " ","t","h","e"," ","m","o","o","d",".">>

\* the location section of a prompt gives this scene's visual DNA
LocationGives(prompt, s) ==
  Includes(prompt, LocationHeading \o s.visualPrompt)

LocationIsAmbience(prompt) ==
  Includes(prompt, LocationHeading \o AmbienceLine)

\* the location section of frame f agrees with its scene binding, given the
\* scenes scs
LocationAgrees(f, scs) ==
  IF f.assignedSceneId # 0
    THEN /\ \E k \in 1..Len(scs) :
              /\ scs[k].id = f.assignedSceneId
              /\ LocationGives(f.currentPrompt, scs[k])
         /\ ~LocationIsAmbience(f.currentPrompt)
    ELSE /\ LocationIsAmbience(f.currentPrompt)
         /\ \A k \in 1..Len(scs) : ~LocationGives(f.currentPrompt, scs[k])

----------------------------------------------------------------------------
(* Properties of the WAV container *)

\* the k bytes of n, least significant first
LittleEndian(n, k) == [i \in 1..k |-> (n \div (256 ^ (i - 1))) % 256]

\* the k bytes of container b at byte offset off
BytesAt(b, off, k) == SubSeq(b, off + 1, off + k)

\* C24: for a PCM payload of L bytes the container has L+44 bytes; read as
\* little-endian numbers, offset 4 holds L+36, offset 16 holds 16, offset 20
\* holds 1, offset 22 the channel count 1, offset 24 the sample rate 24000,
\* offset 28 sampleRate * channels * bitsPerSample/8, offset 32 channels *
\* bitsPerSample/8 and offset 40 holds L.
C24_WavHeaderFields ==
  wPc # "idle" =>
    LET L == Len(wPcm)
    IN  /\ wPc = "returned"
        /\ Len(wBlob) = L + 44
        /\ BytesAt(wBlob, 4, 4) = LittleEndian(L + 36, 4)
        /\ BytesAt(wBlob, 16, 4) = LittleEndian(16, 4)
        /\ BytesAt(wBlob, 20, 2) = LittleEndian(1, 2)
        /\ BytesAt(wBlob, 22, 2) = LittleEndian(1, 2)
        /\ BytesAt(wBlob, 24, 4) = LittleEndian(24000, 4)
        /\ BytesAt(wBlob, 28, 4) = LittleEndian((24000 * 1 * 16) \div 8, 4)
        /\ BytesAt(wBlob, 32, 2) = LittleEndian((1 * 16) \div 8, 2)
        /\ BytesAt(wBlob, 40, 4) = LittleEndian(L, 4)

\* a payload of 300 bytes, whose sizes take two bytes
C24_Witness ==
  /\ wPc = "returned"
  /\ Len(wPcm) = 300
  /\ BytesAt(wBlob, 4, 4) = <<80, 1, 0, 0>>
  /\ BytesAt(wBlob, 40, 4) = <<44, 1, 0, 0>>

\* C25: the container is the header followed by the payload unchanged: the
\* bytes from offset 44 on are the PCM bytes, in order.
C25_PayloadFollowsHeader ==
  wPc # "idle" =>
    /\ wPc = "returned"
    /\ BytesAt(wBlob, 44, Len(wBlob) - 44) = wPcm

\* a payload whose base64 text ends with padding
C25_Witness ==
  /\ wPc = "returned"
  /\ wPcm = <<255, 0, 65, 255>>
  /\ BytesAt(wBlob, 44, 4) = <<255, 0, 65, 255>>

----------------------------------------------------------------------------
(* Properties of generateSpeech *)

\* the first content part of the response carries no audio payload: there
\* is no part, or the first part has no inline data, or empty inline data
PayloadAbsent ==
  \/ Len(TheResponse) = 0
  \/ TheResponse[1].inlineData = <<>>
  \/ TheResponse[1].inlineData = <<EmptyText>>

\* the bytes the base64 payloads of the responses stand for
ClaimedBytes(b) ==
  CASE b = <<"A","Q","I","D">> -> <<1, 2, 3>>
    [] b = <<"/","+","8","=">> -> <<255, 239>>
    [] b = <<"A","A","=","=">> -> <<0>>

\* C26: generateSpeech reads the payload of the first content part only.
\* When that part is missing or has no inline data it fails with the
\* audio-missing error and returns nothing, whatever later parts hold; when
\* it holds a base64 payload the operation returns a reference to a WAV
\* container of that payload.
C26_FirstPartPayloadOnly ==
  Responded("generateSpeech") =>
    IF PayloadAbsent
      THEN /\ sPc = "thrown"
           /\ sThrown.id = 0
           /\ sThrown.message = NoAudioText
           /\ sResult = <<>>
      ELSE \A b \in {<<"A","Q","I","D">>, <<"/","+","8","=">>,
                     <<"A","A","=","=">>} :
             TheResponse[1].inlineData = <<b>> =>
               /\ sPc = "returned"
               /\ sResult[1].type = "audio/wav"
               /\ Len(sResult[1].bytes) = 44 + Len(ClaimedBytes(b))
               /\ SubSeq(sResult[1].bytes, 1, 4) = <<82, 73, 70, 70>>
               /\ SubSeq(sResult[1].bytes, 45, Len(sResult[1].bytes))
                    = ClaimedBytes(b)

\* a first part without inline data followed by a part with a payload
C26_Witness ==
  /\ Responded("generateSpeech")
  /\ Len(TheResponse) = 2
  /\ TheResponse[1].inlineData = <<>>
  /\ TheResponse[2].inlineData = <<<<"A","Q","I","D">>>>
  /\ sPc = "thrown"
  /\ sThrown.message = NoAudioText

----------------------------------------------------------------------------
(* Properties of the batches *)

\* one of the four batches is running
BatchRunning ==
  \/ charBatch.phase # "idle"
  \/ sceneBatch.phase # "idle"
  \/ batch.phase # "idle"
  \/ audioBatch.phase # "idle"

\* C27, as stated: while a batch is running at most one upstream generation
\* request is in flight.
C27_AtMostOneRequestInFlight ==
  BatchRunning => Cardinality(inflight) <= 1

\* the requests in flight a batch issued, by the kinds of its requests
RequestsOfBatch(kinds) == {r \in inflight : r.batch /\ r.kind \in kinds}

\* a batch at unit i of its units us awaits at most one request, and that
\* request is the one of unit i
OneRequestOfCurrentUnit(kinds, awaiting, b, us) ==
  /\ Cardinality(RequestsOfBatch(kinds)) <= 1
  /\ \A r \in RequestsOfBatch(kinds) :
       /\ b.phase \in awaiting
       /\ b.i \in 1..Len(us)
       /\ r.frameId = us[b.i].id

\* C27, amended: each batch is sequential in itself: of the requests a
\* batch issued at most one is in flight, the one of the unit the loop is
\* at, so the request of the next unit is issued only when that of the
\* current unit has completed.  Requests of other batches may be in flight
\* at the same time.
C27_BatchRequestsSequential ==
  /\ OneRequestOfCurrentUnit({"character"}, {"awaiting"}, charBatch,
                             charBatch.characters)
  /\ OneRequestOfCurrentUnit({"panorama", "grid"},
                             {"awaitingPanorama", "awaitingGrid"},
                             sceneBatch, sceneBatch.scenes)
  /\ OneRequestOfCurrentUnit({"image"}, {"awaiting"}, batch, batch.frames)
  /\ OneRequestOfCurrentUnit({"audio"}, {"awaiting"}, audioBatch,
                             audioBatch.frames)

\* the character batch awaits its second character while the scene batch
\* awaits a panorama
C27_Witness ==
  /\ charBatch.phase = "awaiting"
  /\ charBatch.i = 2
  /\ Cardinality(RequestsOfBatch({"character"})) = 1
  /\ sceneBatch.phase = "awaitingPanorama"
  /\ Cardinality(inflight) = 2

\* the first position from from on at which ok holds, 0 when there is none
NextUnit(from, ok) ==
  IF \E j \in DOMAIN ok : j >= from /\ ok[j]
    THEN CHOOSE j \in DOMAIN ok :
           /\ j >= from /\ ok[j]
           /\ \A k \in DOMAIN ok : (k >= from /\ ok[k]) => j <= k
    ELSE 0

\* the units a batch run attempts, by position in the list the run works on:
\* every character, every scene, the frames without an image or in error,
\* the dialogue frames without audio
EveryUnit(us) == [j \in 1..Len(us) |-> TRUE]

WithoutImage(fs) ==
  [j \in 1..Len(fs) |->
     fs[j].generatedImageUrl = <<>> \/ fs[j].status = "error"]

WithoutAudio(fs) == [j \in 1..Len(fs) |-> fs[j].audioUrl = <<>>]

\* a step of a batch, from b to c, over the units eligible as ok says: the
\* run begins at the first eligible unit, moves on to the next eligible unit
\* only, and ends only when no eligible unit is left
RunsThrough(b, c, okBefore, okAfter) ==
  /\ (b.phase = "idle" /\ c.phase # "idle") => c.i = NextUnit(1, okAfter)
  /\ (b.phase # "idle" /\ c.phase # "idle" /\ c.i # b.i) =>
       c.i = NextUnit(b.i + 1, okBefore)
  /\ (b.phase # "idle" /\ c.phase = "idle") =>
       NextUnit(b.i + 1, okBefore) = 0

\* the entries of list us other than the one with the given id are the same
\* in vs
OthersUntouched(us, vs, id) ==
  /\ Len(vs) = Len(us)
  /\ \A j \in 1..Len(us) : us[j].id # id => vs[j] = us[j]

\* C28: a batch never aborts on a failure.  Each of the four batches begins
\* at its first eligible unit, goes from a unit to the next eligible one
\* whether the unit succeeded or failed, and ends only after the last
\* eligible unit, so each eligible unit is attempted once; the completion of
\* a unit's request, failed or not, changes nothing but that unit.
C28_BatchNeverAborts ==
  [][/\ RunsThrough(charBatch, charBatch', EveryUnit(charBatch.characters),
                     EveryUnit(charBatch'.characters))
     /\ RunsThrough(sceneBatch, sceneBatch', EveryUnit(sceneBatch.scenes),
                     EveryUnit(sceneBatch'.scenes))
     /\ RunsThrough(batch, batch', WithoutImage(batch.frames),
                     WithoutImage(batch'.frames))
     /\ RunsThrough(audioBatch, audioBatch', WithoutAudio(audioBatch.frames),
                     WithoutAudio(audioBatch'.frames))
     /\ \A r \in inflight \ inflight' :
          /\ OthersUntouched(characters, characters',
                             IF r.kind = "character" THEN r.frameId ELSE 0)
          /\ OthersUntouched(scenes, scenes',
                             IF r.kind = "grid" THEN r.frameId ELSE 0)
          /\ OthersUntouched(frames, frames',
                             IF r.kind \in {"image", "audio"}
                               THEN r.frameId ELSE 0)]_vars

\* the first character has failed and the batch awaits the second
C28_Witness ==
  /\ charBatch.phase = "awaiting"
  /\ charBatch.i = 2
  /\ characters = charBatch.characters
  /\ \A j \in 1..Len(characters) : characters[j].imageUrl = <<>>
  /\ \E r \in inflight : r.kind = "character" /\ r.frameId = characters[2].id

\* a step of a batch, from b to c, that goes on to another unit starts from
\* the wait that follows a unit
AfterDelayOnly(b, c) ==
  (b.phase # "idle" /\ c.phase # "idle" /\ c.i # b.i) => b.phase = "delay"

\* C29: in each of the four batches the request of the next unit is issued
\* only after the wait that follows the unit before it, whether that unit
\* succeeded or failed.
C29_DelayBetweenUnits ==
  [][/\ AfterDelayOnly(charBatch, charBatch')
     /\ AfterDelayOnly(sceneBatch, sceneBatch')
     /\ AfterDelayOnly(batch, batch')
     /\ AfterDelayOnly(audioBatch, audioBatch')]_vars

\* the unit has its result
HasImage(c) == c.imageUrl # <<>>
HasBothImages(sc) == sc.imageUrl # <<>> /\ sc.gridUrl # <<>>
HasAudio(f) == f.audioUrl # <<>>
\* generateFrame ends a frame with its image or in error
ImageSettled(f) ==
  \/ f.status = "done" /\ f.generatedImageUrl # <<>>
  \/ f.status = "error"

\* a step of a batch from b to c in which the request of the unit at b.i of
\* us came back and the loop began the wait before the next unit: no
\* request of the batch is in flight after the step
HandsOver(b, c, awaiting, kinds) ==
  /\ b.phase = awaiting
  /\ c.phase = "delay"
  /\ \A r \in inflight' : ~(r.batch /\ r.kind \in kinds)

\* C30: when a unit of a batch has succeeded its result is in the state at
\* once, before the request of the next unit is issued: after the step the
\* character has its image, the scene its two images, the frame its image
\* or its audio (if the user has not removed the unit meanwhile); and the
\* completion of a unit leaves every other unit as it was, so that results
\* committed earlier stay.
C30_IncrementalCommit ==
  [][/\ (charBatch.phase = "awaiting" /\ charBatch'.phase = "delay") =>
          /\ HandsOver(charBatch, charBatch', "awaiting", {"character"})
          /\ \A j \in 1..Len(characters') :
               characters'[j].id = charBatch.characters[charBatch.i].id
                 => HasImage(characters'[j])
     /\ (sceneBatch.phase = "awaitingGrid" /\ sceneBatch'.phase = "delay") =>
          /\ HandsOver(sceneBatch, sceneBatch', "awaitingGrid",
                       {"panorama", "grid"})
          /\ \A j \in 1..Len(scenes') :
               scenes'[j].id = sceneBatch.scenes[sceneBatch.i].id
                 => HasBothImages(scenes'[j])
     /\ (batch.phase = "awaiting" /\ batch'.phase = "delay") =>
          /\ HandsOver(batch, batch', "awaiting", {"image"})
          /\ \A j \in 1..Len(frames') :
               frames'[j].id = batch.frames[batch.i].id
                 => ImageSettled(frames'[j])
     /\ (audioBatch.phase = "awaiting" /\ audioBatch'.phase = "delay") =>
          /\ HandsOver(audioBatch, audioBatch', "awaiting", {"audio"})
          /\ \A j \in 1..Len(frames') :
               frames'[j].id = audioBatch.frames[audioBatch.i].id
                 => HasAudio(frames'[j])
     /\ \A r \in inflight \ inflight' :
          r.batch =>
            /\ \A j \in 1..Len(characters) :
                 (HasImage(characters[j]) /\ characters[j].id # r.frameId)
                   => /\ j <= Len(characters')
                      /\ characters'[j] = characters[j]
            /\ \A j \in 1..Len(scenes) :
                 (HasBothImages(scenes[j]) /\ scenes[j].id # r.frameId)
                   => /\ j <= Len(scenes')
                      /\ scenes'[j] = scenes[j]
            /\ \A j \in 1..Len(frames) :
                 frames[j].id # r.frameId
                   => /\ j <= Len(frames')
                      /\ frames'[j] = frames[j]]_vars

\* the second character of a batch has been committed and the first has
\* kept its image
C30_Witness ==
  /\ charBatch.phase = "delay"
  /\ charBatch.i = 2
  /\ Len(characters) = 2
  /\ HasImage(characters[1])
  /\ HasImage(characters[2])

----------------------------------------------------------------------------
(* Properties of the calls through withRetry *)

\* C32: withRetry stops at the first successful attempt: when attempt j
\* succeeds after j-1 transient failures, j-1 <= N, withRetry returns the
\* result of attempt j, makes no further attempt and no further wait, and
\* raises no error from the earlier failures.
C32_StopsAtFirstSuccess ==
  /\ rResult # <<>> => rPc = "returned"
  /\ rPc = "returned" =>
       /\ rResult = <<attempts>>
       /\ attempts <= rN + 1
       /\ Len(waits) = attempts - 1
       /\ rThrown = NoError

C32_Witness ==
  /\ rPc = "returned"
  /\ rN = DefaultRetries
  /\ attempts = DefaultRetries + 1
  /\ rResult = <<DefaultRetries + 1>>
  /\ Len(waits) = DefaultRetries

\* the upstream calls one generateImage call has issued to a tier
CallsOfTier(t) == { i \in 1..Len(calls) : calls[i].tier = t }

\* C33: one generateImage call issues at most 3 Tier-1 upstream calls followed
\* by at most 3 Tier-2 upstream calls (2 retries per tier); no Tier-2 call is
\* issued before Tier 1 has finished, and when Tier 1 has failed by a raised
\* error Tier 2 is still attempted: generateImage does not finish without a
\* Tier-2 call.
C33_TierCallBudgetAndOrder ==
  /\ Cardinality(CallsOfTier(1)) <= 3
  /\ Cardinality(CallsOfTier(2)) <= 3
  /\ \A i \in CallsOfTier(2) : \A j \in CallsOfTier(1) : j < i
  /\ CallsOfTier(2) # {} => t1Outcome # NoOutcome
  /\ gPc = "tier1" => t1Outcome = NoOutcome
  /\ t1Outcome.kind = "err" =>
       /\ gPc \in {"tier2", "returned", "thrown"}
       /\ gPc \in {"returned", "thrown"} => CallsOfTier(2) # {}

C33_Witness ==
  /\ gPc = "thrown"
  /\ t1Outcome.kind = "err"
  /\ Cardinality(CallsOfTier(1)) = 3
  /\ Cardinality(CallsOfTier(2)) = 3

----------------------------------------------------------------------------
(* Properties of the commits of generation results *)

\* the image requests of generateFrame that complete in a step
CompletedImageRequests ==
  { r \in inflight : r.kind = "image" /\ r \notin inflight' }

\* g is f after a successful generateFrame whose prompt was prompt
FrameDone(f, g, prompt) ==
  /\ g.generatedImageUrl \in ImageUrls
  /\ g = [f EXCEPT !.status = "done",
                   !.generatedImageUrl = g.generatedImageUrl,
                   !.currentPrompt = prompt]

\* g is f after a failed generateFrame
FrameFailed(f, g) == g = [f EXCEPT !.status = "error"]

\* C34: when generateFrame succeeds the frame's status becomes 'done', its
\* image is the returned reference and its currentPrompt is exactly the prompt
\* text sent to generateImage; when it fails the status becomes 'error' and
\* generatedImageUrl and currentPrompt are unchanged.  In both cases every
\* other frame is unchanged.
C34_GenerateFrameCommit ==
  [][\A r \in CompletedImageRequests :
       /\ Len(frames') = Len(frames)
       /\ \/ \A i \in 1..Len(frames) :
               frames[i].id = r.frameId
                 => FrameDone(frames[i], frames'[i], r.prompt)
          \/ \A i \in 1..Len(frames) :
               frames[i].id = r.frameId => FrameFailed(frames[i], frames'[i])
       /\ \A i \in 1..Len(frames) :
            frames[i].id # r.frameId => frames'[i] = frames[i]]_vars

\* one frame done, bound to no scene and with the ambience location in its
\* prompt; the other failed and has no image
C34_Witness ==
  /\ Len(frames) = 2
  /\ inflight = {}
  /\ frames[1].status = "done"
  /\ frames[1].generatedImageUrl = UrlA
  /\ frames[1].assignedSceneId = 0
  /\ LocationIsAmbience(frames[1].currentPrompt)
  /\ frames[2].status = "error"
  /\ frames[2].generatedImageUrl = EmptyText

\* the requests that complete in a step
CompletedRequests == { r \in inflight : r \notin inflight' }

\* C35: a generation result is committed only to the entity the request was
\* started for, identified by id: the completion of a request changes no
\* other frame, character or scene, and when the entity no longer exists (it
\* was deleted, or the frames were replaced by a new extraction) it changes
\* no frame, character or scene at all.
C35_CommitOnlyToRequestedEntity ==
  [][\A r \in CompletedRequests :
       /\ OthersUntouched(frames, frames', r.frameId)
       /\ OthersUntouched(characters, characters', r.frameId)
       /\ OthersUntouched(scenes, scenes', r.frameId)
       /\ r.kind \in {"image", "audio"} =>
            characters' = characters /\ scenes' = scenes
       /\ r.kind = "character" => frames' = frames /\ scenes' = scenes
       /\ r.kind \in {"panorama", "grid"} =>
            frames' = frames /\ characters' = characters]_vars

\* the image of the first character of the batch has arrived after that
\* character was deleted, and no character has an image
C35_Witness ==
  /\ charBatch.phase = "delay"
  /\ charBatch.i = 1
  /\ Len(characters) > 0
  /\ \A k \in 1..Len(characters) :
       /\ characters[k].id # charBatch.characters[1].id
       /\ characters[k].imageUrl = EmptyText

----------------------------------------------------------------------------
(* Properties of the selection of units by the batches *)

\* the requests the batch of the given kind issues in a step
IssuedByBatch(kind) ==
  { r \in inflight' : r \notin inflight /\ r.kind = kind /\ r.batch }

WithDialogue(fs) == SelectSeq(fs, LAMBDA f : ~IsBlankText(f.dialogue))

----------------------------------------------------------------------------
(* Properties of the scene images *)

\* C38: a scene's panorama and detail grid are committed together or not at
\* all, in the full set of one scene and in the batch: the arrival of the
\* panorama changes no scene, the two references of a scene change only in
\* the step in which the grid of that scene arrives, both at once, and when
\* the grid fails after the panorama succeeded neither reference changes.
C38_PanoramaAndGridTogether ==
  [][/\ (\E r \in CompletedRequests : r.kind = "panorama") => scenes' = scenes
     /\ \A k \in 1..Len(scenes) :
          (/\ k <= Len(scenes')
           /\ scenes'[k].id = scenes[k].id
           /\ scenes'[k] # scenes[k])
          => /\ \E r \in CompletedRequests :
                  r.kind = "grid" /\ r.frameId = scenes[k].id
             /\ scenes'[k].imageUrl # EmptyText
             /\ scenes'[k].gridUrl # EmptyText
             /\ scenes'[k] = [scenes[k] EXCEPT
                                !.imageUrl = scenes'[k].imageUrl,
                                !.gridUrl = scenes'[k].gridUrl]]_vars

\* the batch has committed both images of the first scene; the full set of
\* the second scene holds its panorama and awaits its grid, and the scene
\* has neither image
C38_Witness ==
  /\ Len(scenes) = 2
  /\ sceneBatch.phase = "delay"
  /\ sceneBatch.i = 1
  /\ scenes[1].imageUrl # EmptyText
  /\ scenes[1].gridUrl # EmptyText
  /\ fullSet.phase = "awaitingGrid"
  /\ fullSet.id = scenes[2].id
  /\ fullSet.panImg # EmptyText
  /\ scenes[2].imageUrl = EmptyText
  /\ scenes[2].gridUrl = EmptyText

----------------------------------------------------------------------------
(* Properties of the script analysis *)

\* JSON values that are not arrays: null, a boolean, numbers, a string, an
\* object
NotArrays ==
  {JNull, JBool(FALSE), JNum(0), JNum(5), JStr(VisualA), EntityOf(NameA)}

\* C39: analyzeScript, given a response body that is valid JSON but not an
\* array, returns an empty panel list and raises no error.
C39_NonArrayGivesNoPanels ==
  \A v \in NotArrays :
    (/\ Responded("analyzeScript")
     /\ TheResponse.present
     /\ TheResponse.toks = Stringify(v))
    => /\ sPc = "returned"
       /\ sResult = << <<>> >>
       /\ sThrown = NoError

C39_Witness ==
  /\ Responded("analyzeScript")
  /\ TheResponse.present
  /\ TheResponse.toks = Stringify(EntityOf(NameA))
  /\ sPc = "returned"
  /\ sResult = << <<>> >>
  /\ Len(calls) = 1

\* a step leaves the characters, the scenes and the frames as they are
BoardUnchanged ==
  characters' = characters /\ scenes' = scenes /\ frames' = frames

\* a step in which a phase of the analysis fails: the tab stays, and the
\* status leaves extracting or storyboarding otherwise than to the next phase
PhaseFails ==
  /\ activeTab = "script"
  /\ activeTab' = "script"
  /\ \/ scriptStatus = "extracting" /\ scriptStatus' # "storyboarding"
     \/ scriptStatus = "storyboarding" /\ scriptStatus' # "done"
  /\ scriptStatus' # scriptStatus

\* C40: script analysis runs its two phases in order and commits nothing on
\* failure: phase 2 begins only from phase 1 and with what phase 1 resolved
\* to, the analysis is done only from phase 2; when a phase fails the status
\* returns to 'idle' and the extracted data are as before; no step of the
\* analysis changes the characters, scenes or frames, which change only when
\* extracted data are applied.
C40_AnalysisPhasesAndNoPartialCommit ==
  [][/\ (scriptStatus' = "extracting" /\ scriptStatus # "extracting") =>
          worldData' = <<>> /\ extractedData' = extractedData
     /\ (scriptStatus' = "storyboarding" /\ scriptStatus # "storyboarding") =>
          /\ scriptStatus = "extracting"
          /\ worldData' # <<>>
          /\ extractedData' = extractedData
     /\ (scriptStatus' = "done" /\ scriptStatus # "done") =>
          /\ scriptStatus = "storyboarding"
          /\ worldData # <<>>
          /\ extractedData' # NoData
          /\ extractedData'[1].characters = worldData[1].characters
          /\ extractedData'[1].scenes = worldData[1].scenes
     /\ PhaseFails =>
          /\ scriptStatus' = "idle"
          /\ extractedData' = extractedData
     /\ (scriptStatus' # scriptStatus /\ activeTab' = activeTab) =>
          BoardUnchanged
     /\ ~BoardUnchanged =>
          /\ activeTab = "script"
          /\ extractedData # NoData
          /\ Len(characters') =
               Len(characters) + Len(extractedData[1].characters)
          /\ Len(scenes') = Len(scenes) + Len(extractedData[1].scenes)
          /\ Len(frames') = Len(extractedData[1].panels)]_vars

\* a first analysis succeeded and a second one, begun on the same tab,
\* failed: the status is back at idle, the data of the first are still
\* there, and nothing has been applied
C40_Witness ==
  /\ activeTab = "script"
  /\ scriptStatus = "idle"
  /\ extractedData # NoData
  /\ Len(extractedData[1].panels) = 3
  /\ frames = <<>>
  /\ ops = 2

----------------------------------------------------------------------------
(* Termination of the batches *)

NoFrameGenerating == \A i \in 1..Len(frames) : frames[i].status # "generating"

====
